---------------------------- MODULE Spec2Model ----------------------------
(***************************************************************************)
(* EM production tracker: the EHI sync engine (scripts/sync-ehi.mjs), the  *)
(* mirror tables it refreshes in Neon PostgreSQL, and the dual-source WIP  *)
(* query engine (netlify/functions/api.mts, second module of the file).    *)
(*                                                                         *)
(* Text values are sequences of one-character strings, so that LOWER,      *)
(* LIKE and the ordering comparisons of the SQL are computed, not assumed. *)
(* A JavaScript value that may be a number or null is a tagged record.     *)
(***************************************************************************)
EXTENDS Integers, Sequences, FiniteSets, TLC

\* ------------------------------------------------------------------------
\* Bounds of the model
\* ------------------------------------------------------------------------

\* Number of sync invocations explored.
MaxRuns == 2

\* Rejected awaits and kills injected over all runs.
MaxFaults == 2

\* Process codes explored by the classifier: -CodeSpan .. ValidMax + CodeSpan.
CodeSpan == 40

\* Rows on the WIP page explored by the reconciler.
MaxRows == 2

\* Entries of the open list explored by the reconciler.
MaxOpenOps == 2

\* ------------------------------------------------------------------------
\* Text
\* ------------------------------------------------------------------------

Upper == <<"A","B","C","D","E","F","G","H","I","J","K","L","M",
           "N","O","P","Q","R","S","T","U","V","W","X","Y","Z">>

Lower == <<"a","b","c","d","e","f","g","h","i","j","k","l","m",
           "n","o","p","q","r","s","t","u","v","w","x","y","z">>

Digits == <<"0","1","2","3","4","5","6","7","8","9">>

Range(s) == {s[i] : i \in DOMAIN s}

IndexOf(s, c) == CHOOSE i \in DOMAIN s : s[i] = c

\* Code point of a character of the alphabet used by the identifiers.
CodePoint(c) ==
  IF c \in Range(Digits) THEN 47 + IndexOf(Digits, c)
  ELSE IF c \in Range(Upper) THEN 64 + IndexOf(Upper, c)
  ELSE IF c \in Range(Lower) THEN 96 + IndexOf(Lower, c)
  ELSE IF c = " " THEN 32
  ELSE 45   \* "-"

\* String.prototype.toLowerCase / SQL LOWER, one character.
LowerChar(c) == IF c \in Range(Upper) THEN Lower[IndexOf(Upper, c)] ELSE c

toLowerCase(s) == [i \in DOMAIN s |-> LowerChar(s[i])]

\* s LIKE 'p%'
StartsWith(s, p) == Len(s) >= Len(p) /\ SubSeq(s, 1, Len(p)) = p

\* s LIKE '%p%' (p holds no wildcard character)
Contains(s, p) ==
  \E i \in 0..(Len(s) - Len(p)) : SubSeq(s, i + 1, i + Len(p)) = p

\* a < b by code point (the C collation of the mirror database)
RECURSIVE StrLess(_, _)
StrLess(a, b) ==
  IF b = <<>> THEN FALSE
  ELSE IF a = <<>> THEN TRUE
  ELSE IF CodePoint(Head(a)) # CodePoint(Head(b))
       THEN CodePoint(Head(a)) < CodePoint(Head(b))
       ELSE StrLess(Tail(a), Tail(b))

\* a >= b
StrGeq(a, b) == ~StrLess(a, b)

\* ------------------------------------------------------------------------
\* JavaScript values: number | null
\* ------------------------------------------------------------------------

Num(n) == [t |-> "number", v |-> n]

NullV == [t |-> "null", v |-> 0]

\* x === n for a number literal n
StrictEq(x, n) == x.t = "number" /\ x.v = n

\* ToNumber(x), as the relational operators apply it (null converts to 0)
ToNumber(x) == IF x.t = "null" THEN 0 ELSE x.v

\* x || null for a number-or-null x (0 is falsy)
OrNull(x) == IF x.t = "null" \/ x.v = 0 THEN NullV ELSE x

\* ------------------------------------------------------------------------
\* Stage classifier
\* ------------------------------------------------------------------------

WIP_STAGE == [ON_LOOM |-> "on_loom", FINISHING |-> "finishing",
              FG_GODOWN |-> "fg_godown", PACKED |-> "packed"]

\* Last process id of PROCESS_NAME_MASTER (37 = MOVE TO EMPL).
ValidMax == 37

\* The classifier without the upper end of the valid range.
getWipStage_NoDefault(processId) ==
  IF StrictEq(processId, 1) THEN WIP_STAGE.ON_LOOM
  ELSE IF \E c \in {7, 25, 27} : StrictEq(processId, c) THEN WIP_STAGE.PACKED
  ELSE IF \E c \in {21, 22} : StrictEq(processId, c) THEN WIP_STAGE.FG_GODOWN
  ELSE IF ToNumber(processId) >= 2 THEN WIP_STAGE.FINISHING
  ELSE WIP_STAGE.ON_LOOM

\* The classifier with a fifth bucket for the codes it does not know.
getWipStage_Unknown(processId) ==
  IF StrictEq(processId, 1) THEN WIP_STAGE.ON_LOOM
  ELSE IF \E c \in {7, 25, 27} : StrictEq(processId, c) THEN WIP_STAGE.PACKED
  ELSE IF \E c \in {21, 22} : StrictEq(processId, c) THEN WIP_STAGE.FG_GODOWN
  ELSE IF ToNumber(processId) >= 2 /\ ToNumber(processId) <= ValidMax
       THEN WIP_STAGE.FINISHING
  ELSE "unknown"

getWipStage(processId) ==
  IF StrictEq(processId, 1) THEN WIP_STAGE.ON_LOOM
  ELSE IF \E c \in {7, 25, 27} : StrictEq(processId, c) THEN WIP_STAGE.PACKED
  ELSE IF \E c \in {21, 22} : StrictEq(processId, c) THEN WIP_STAGE.FG_GODOWN
  ELSE IF ToNumber(processId) >= 2 /\ ToNumber(processId) <= ValidMax
       THEN WIP_STAGE.FINISHING
  ELSE WIP_STAGE.ON_LOOM

\* ------------------------------------------------------------------------
\* The remote source (EHI SQL Server): OrderMaster, OrderDetail, CarpetNumber
\* ------------------------------------------------------------------------

\* The order identifiers, buyer codes, designs, folios and contractors of the
\* data sets below, as sequences of characters.
Ids ==
  [EM_25_150 |-> <<"E","M","-","2","5","-","1","5","0">>,
   EM_26_007 |-> <<"E","M","-","2","6","-","0","0","7">>,
   EM_24_050 |-> <<"E","M","-","2","4","-","0","5","0">>,
   IK_900 |-> <<"I","K","-","9","0","0">>,
   J_01 |-> <<"J","-","0","1">>,
   K_02 |-> <<"K","-","0","2">>,
   KILIM |-> <<"K","i","l","i","m">>,
   JUTE |-> <<"J","u","t","e">>,
   OPS_25881 |-> <<"O","P","S","-","2","5","8","8","1">>,
   OPS_25902 |-> <<"O","P","S","-","2","5","9","0","2">>,
   OPS_24100 |-> <<"O","P","S","-","2","4","1","0","0">>,
   F_7 |-> <<"F","-","7">>,
   F_8 |-> <<"F","-","8">>,
   RAM |-> <<"R","a","m">>,
   X_25_150 |-> <<"X","-","2","5","-","1","5","0">>,
   X_25_050 |-> <<"X","-","2","5","-","0","5","0">>,
   X_25_010 |-> <<"X","-","2","5","-","0","1","0">>,
   EM_25_100 |-> <<"E","M","-","2","5","-","1","0","0">>,
   EM_24_100 |-> <<"E","M","-","2","4","-","1","0","0">>,
   EM_25_050 |-> <<"E","M","-","2","5","-","0","5","0">>,
   em_25_150 |-> <<"e","m","-","2","5","-","1","5","0">>,
   EM_25_139_B |-> <<"E","M","-","2","5","-","1","3","9"," ","B">>,
   EM_25_770_B |-> <<"E","M","-","2","5","-","7","7","0","-","B">>,
   em_25_050_ |-> <<" ","e","m","-","2","5","-","0","5","0"," ">>]

OM(id, no, cust, st) ==
  [OrderId |-> id, CustomerOrderNo |-> no, CustomerCode |-> cust, Status |-> st,
   LocalOrder |-> no \o <<" ">> \o cust]

OD(id, oid, fin, qty, design) ==
  [OrderDetailId |-> id, OrderId |-> oid, Item_Finished_Id |-> fin,
   QtyRequired |-> qty, DesignName |-> design]

CN(stock, oid, fin, proc, packed) ==
  [StockNo |-> stock, OrderId |-> oid, Item_Finished_Id |-> fin,
   CurrentProStatus |-> proc, IsPacked |-> packed]

\* The states of the remote database the model moves between.  In the first,
\* order 101 is open with two detail lines of one finished item and a unit
\* whose finished item has no detail line; in the second, 101 is closed and
\* 103 (new), 102 (an older year) and 104 (a legacy identifier) are open; in
\* the third no order is open.
RemoteData ==
  << [OrderMaster  |-> {OM(101, Ids.EM_25_150, Ids.J_01, "0"), OM(102, Ids.EM_24_050, Ids.K_02, "1")},
      OrderDetail  |-> {OD(11, 101, 5, 2, Ids.KILIM), OD(12, 101, 5, 1, Ids.JUTE),
                        OD(21, 102, 6, 1, Ids.JUTE)},
      CarpetNumber |-> {CN(1, 101, 5, Num(1), 0), CN(2, 101, 5, Num(7), 1),
                        CN(3, 101, 9, Num(999), 0), CN(4, 102, 6, Num(3), 0),
                        CN(8, 101, 5, Num(25), 1)},
      ProcessNames |-> {1, 7}],
     [OrderMaster  |-> {OM(101, Ids.EM_25_150, Ids.J_01, "1"), OM(102, Ids.EM_24_050, Ids.K_02, "0"),
                        OM(103, Ids.EM_26_007, <<>>, "0"), OM(104, Ids.IK_900, Ids.K_02, "0")},
      OrderDetail  |-> {OD(11, 101, 5, 2, Ids.KILIM), OD(21, 102, 6, 1, Ids.JUTE),
                        OD(31, 103, 7, 2, Ids.KILIM)},
      CarpetNumber |-> {CN(1, 101, 5, Num(7), 1), CN(4, 102, 6, Num(21), 0),
                        CN(5, 103, 7, NullV, 0), CN(6, 103, 7, Num(36), 0),
                        CN(7, 103, 7, Num(0), 0)},
      ProcessNames |-> {1, 7, 21}],
     [OrderMaster  |-> {OM(101, Ids.EM_25_150, Ids.J_01, "1")},
      OrderDetail  |-> {OD(11, 101, 5, 2, Ids.KILIM)},
      CarpetNumber |-> {CN(1, 101, 5, Num(27), 1)},
      ProcessNames |-> {1, 7, 21}] >>

\* A set as the sequence ORDER BY gives it (Less is a strict total order on S).
OrderedSeq(S, Less(_, _)) ==
  CHOOSE s \in [1..Cardinality(S) -> S] :
    /\ Range(s) = S
    /\ \A i, j \in 1..Cardinality(S) : i < j => Less(s[i], s[j])

\* SUM / reduce of the function f over the rows S
RECURSIVE SumOver(_, _)
SumOver(S, f) ==
  IF S = {} THEN 0
  ELSE LET x == CHOOSE y \in S : TRUE IN f[x] + SumOver(S \ {x}, f)

ByOrderNo(a, b) ==
  \/ StrLess(a.CustomerOrderNo, b.CustomerOrderNo)
  \/ a.CustomerOrderNo = b.CustomerOrderNo /\ a.OrderId < b.OrderId

\* SELECT ... FROM OrderMaster om ... WHERE om.Status = '0' ORDER BY om.CustomerOrderNo
openOrdersQuery(R) ==
  LET open == {om \in R.OrderMaster : om.Status = "0"}
      lines(om) == {od \in R.OrderDetail : od.OrderId = om.OrderId}
      row(om) == [OrderId |-> om.OrderId, CustomerOrderNo |-> om.CustomerOrderNo,
                  CustomerCode |-> om.CustomerCode, Status |-> om.Status,
                  LocalOrder |-> om.LocalOrder,
                  ItemCount |-> Cardinality(lines(om)),
                  TotalPcs |-> SumOver(lines(om), [od \in lines(om) |-> od.QtyRequired])]
      sorted == OrderedSeq(open, ByOrderNo)
  IN [i \in DOMAIN sorted |-> row(sorted[i])]

ByOrderDetail(a, b) ==
  \/ a.OrderId < b.OrderId
  \/ a.OrderId = b.OrderId /\ a.OrderDetailId < b.OrderDetailId

\* SELECT ... FROM OrderDetail od ... WHERE od.OrderId IN (idList)
\*   ORDER BY od.OrderId, od.OrderDetailId
orderItemsQuery(R, idList) ==
  OrderedSeq({od \in R.OrderDetail : od.OrderId \in Range(idList)}, ByOrderDetail)

ByStockNo(a, b) == a.StockNo < b.StockNo

\* SELECT ... FROM CarpetNumber cn ... WHERE cn.OrderId IN (idList)
\* (the query names no order; the rows are taken by stock number)
carpetsQuery(R, idList) ==
  OrderedSeq({cn \in R.CarpetNumber : cn.OrderId \in Range(idList)}, ByStockNo)

\* ------------------------------------------------------------------------
\* JavaScript Map (insertion-ordered) and array batching
\* ------------------------------------------------------------------------

MapHas(m, k) == \E i \in DOMAIN m : m[i].k = k

MapGet(m, k) == m[CHOOSE i \in DOMAIN m : m[i].k = k].v

MapSet(m, k, v) ==
  IF MapHas(m, k)
  THEN [i \in DOMAIN m |-> IF m[i].k = k THEN [k |-> k, v |-> v] ELSE m[i]]
  ELSE Append(m, [k |-> k, v |-> v])

MapKeys(m) == [i \in DOMAIN m |-> m[i].k]

MapSize(m) == Len(m)

Min(a, b) == IF a < b THEN a ELSE b

\* arr.slice(i, i + size), i a zero-based offset
Slice(arr, i, size) == SubSeq(arr, i + 1, Min(i + size, Len(arr)))

\* const BATCH = 200 (order ids per OrderDetail query)
BATCH == 200

\* const SQL_BATCH = 200 (order ids per CarpetNumber query)
SQL_BATCH == 200

\* const PG_BATCH = 100 (rows per INSERT INTO ehi_carpets)
PG_BATCH == 100

\* ------------------------------------------------------------------------
\* The mirror database (Neon PostgreSQL) and the sync connection's statements
\* ------------------------------------------------------------------------

VARIABLES
  remote,     \* index of the remote database's present state in RemoteData
  db,         \* committed tables of the mirror database
  tx,         \* the sync connection's transaction: open flag, working tables
  seq,        \* the SERIAL sequences (never rolled back)
  sync,       \* the sync process: program counter and locals of main()
  runs,       \* sync invocations started so far
  clock,      \* wall clock
  before,     \* history: the mirror tables when the present run started
  gens,       \* history: the mirror tables of every commit, with the remote ids
  faults,     \* rejected awaits and kills so far
  seen,       \* rows of the latest mirror query of a concurrent WIP request
  live,       \* index of the live (EMPL) database's state in LiveData
  req,        \* the WIP request being served by handler()
  cls,        \* the stage classifier applied to one process code
  ui,         \* the WIP page: the rows it fetched and what it renders of them
  procs,      \* two sync invocations that no scheduler keeps apart
  tracker     \* a production_tracker document and the stage requests on it

\* CREATE TABLE IF NOT EXISTS ... (the tables after --init)
CREATE_TABLES_SQL ==
  [ehi_orders |-> {}, ehi_order_items |-> {}, ehi_carpets |-> {},
   ehi_process_names |-> {}, ehi_sync_log |-> {}]

\* The three mirror tables of a database state.
Mirror(d) ==
  [ehi_orders |-> d.ehi_orders, ehi_order_items |-> d.ehi_order_items,
   ehi_carpets |-> d.ehi_carpets]

\* The tables a statement of the sync connection reads and writes.
Cur == IF tx.open THEN tx.work ELSE db

\* The clock counts the reads of it: a statement that evaluates NOW() runs
\* one unit after the previous such statement.
Later == clock + 1

\* NOW(): the transaction's start time inside a transaction, else the
\* statement's time.
NOW == IF tx.open THEN tx.start ELSE Later

NoTx == [open |-> FALSE, work |-> CREATE_TABLES_SQL, start |-> 0]

\* BEGIN left out: every statement of the run commits on its own.
pgBegin_Autocommit(d, now) == NoTx

\* pgClient.query('BEGIN')
pgBegin(d, now) == [open |-> TRUE, work |-> d, start |-> now]

\* The effect of a statement of the sync connection that leaves tables T.
Exec(T) ==
  IF tx.open THEN tx' = [tx EXCEPT !.work = T] /\ db' = db
  ELSE db' = T /\ tx' = tx

\* ROLLBACK keeping the transaction's writes.
pgRollback_Keep(d, t) == IF t.open THEN t.work ELSE d

\* pgClient.query('ROLLBACK'): the committed tables afterwards
pgRollback(d, t) == d

\* pgClient.query('COMMIT'): the committed tables afterwards
pgCommit(d, t) == IF t.open THEN t.work ELSE d

\* DELETE FROM ehi_carpets
deleteCarpets(T) == [T EXCEPT !.ehi_carpets = {}]

\* DELETE FROM ehi_order_items (ehi_carpets.order_item_id ... ON DELETE CASCADE)
deleteOrderItems(T) ==
  [T EXCEPT !.ehi_order_items = {},
            !.ehi_carpets = {c \in @ : c.order_item_id.t = "null"}]

\* The sync without its DELETE FROM ehi_orders.
deleteOrders_Skip(T) == T

\* DELETE FROM ehi_orders (ehi_order_items.order_id ... ON DELETE CASCADE)
deleteOrders(T) ==
  [T EXCEPT !.ehi_orders = {},
            !.ehi_order_items = {},
            !.ehi_carpets = {c \in @ : c.order_item_id.t = "null"}]

\* INSERT INTO ehi_orders (...) VALUES (...) RETURNING id
insertOrder(T, id, order, now) ==
  [T EXCEPT !.ehi_orders = @ \cup
     {[id |-> id, order_no |-> order.CustomerOrderNo,
       order_id_src |-> order.OrderId, buyer_code |-> order.CustomerCode,
       status |-> order.Status, local_order |-> order.LocalOrder,
       total_pcs |-> order.TotalPcs,
       total_items |-> order.ItemCount, synced_at |-> now]}]

\* INSERT INTO ehi_order_items (...) VALUES (...) RETURNING id
insertOrderItem(T, id, pgOrderId, item) ==
  [T EXCEPT !.ehi_order_items = @ \cup
     {[id |-> id, order_id |-> pgOrderId,
       order_detail_id_src |-> item.OrderDetailId,
       item_finished_id |-> item.Item_Finished_Id,
       design_name |-> item.DesignName, ordered_qty |-> item.QtyRequired]}]

\* The unit row with its stage taken from the packing flag alone.
carpetRow_StageByPacking(id, carpet, itemIdMap) ==
  LET key == <<carpet.OrderId, carpet.Item_Finished_Id>>
      pgItemId == IF MapHas(itemIdMap, key) THEN Num(MapGet(itemIdMap, key))
                  ELSE NullV
  IN [id |-> id, stock_no |-> carpet.StockNo, order_item_id |-> pgItemId,
      current_process |-> OrNull(carpet.CurrentProStatus),
      wip_stage |-> IF carpet.IsPacked = 1 THEN WIP_STAGE.PACKED
                   ELSE WIP_STAGE.ON_LOOM,
      is_packed |-> (carpet.IsPacked = 1)]

\* One row of the VALUES list of INSERT INTO ehi_carpets, from a unit and the
\* natural-key map of the items.
carpetRow(id, carpet, itemIdMap) ==
  LET key == <<carpet.OrderId, carpet.Item_Finished_Id>>
      pgItemId == IF MapHas(itemIdMap, key) THEN Num(MapGet(itemIdMap, key))
                  ELSE NullV
  IN [id |-> id, stock_no |-> carpet.StockNo, order_item_id |-> pgItemId,
      current_process |-> OrNull(carpet.CurrentProStatus),
      wip_stage |-> getWipStage(carpet.CurrentProStatus),
      is_packed |-> (carpet.IsPacked = 1)]

\* INSERT INTO ehi_carpets (...) VALUES (row), (row), ...
insertCarpets(T, firstId, batch, itemIdMap) ==
  [T EXCEPT !.ehi_carpets = @ \cup
     {carpetRow(firstId + i - 1, batch[i], itemIdMap) : i \in DOMAIN batch}]

\* INSERT INTO ehi_sync_log (sync_type, started_at, status)
\*   VALUES ('full', NOW(), 'running') RETURNING id
insertSyncLog(T, id, now) ==
  [T EXCEPT !.ehi_sync_log = @ \cup
     {[id |-> id, started_at |-> now, finished_at |-> -1, orders_synced |-> 0,
       items_synced |-> 0, carpets_synced |-> 0, errors |-> "", status |-> "running"]}]

\* UPDATE ehi_sync_log SET finished_at = NOW(), orders_synced = $2, ...,
\*   status = 'success' WHERE id = $1
updateSyncLogSuccess(T, id, now, orders, items, carpets) ==
  [T EXCEPT !.ehi_sync_log =
     {IF r.id = id
      THEN [r EXCEPT !.finished_at = now, !.orders_synced = orders,
                     !.items_synced = items, !.carpets_synced = carpets,
                     !.status = "success"]
      ELSE r : r \in @}]

\* The error UPDATE without its WHERE clause.
updateSyncLogError_AllRows(T, id, now, message) ==
  [T EXCEPT !.ehi_sync_log =
     {[r EXCEPT !.finished_at = now, !.errors = message, !.status = "error"] :
        r \in @}]

\* The error UPDATE without its status column.
updateSyncLogError_NoStatus(T, id, now, message) ==
  [T EXCEPT !.ehi_sync_log =
     {IF r.id = id
      THEN [r EXCEPT !.finished_at = now, !.errors = message]
      ELSE r : r \in @}]

\* The error UPDATE writing status 'success'.
updateSyncLogError_Success(T, id, now, message) ==
  [T EXCEPT !.ehi_sync_log =
     {IF r.id = id
      THEN [r EXCEPT !.finished_at = now, !.errors = message,
                     !.status = "success"]
      ELSE r : r \in @}]

\* UPDATE ehi_sync_log SET finished_at = NOW(), errors = $2, status = 'error'
\*   WHERE id = $1
updateSyncLogError(T, id, now, message) ==
  [T EXCEPT !.ehi_sync_log =
     {IF r.id = id
      THEN [r EXCEPT !.finished_at = now, !.errors = message, !.status = "error"]
      ELSE r : r \in @}]

\* syncProcessNames: DELETE FROM ehi_process_names, then one upsert per name
syncProcessNames(T, R) == [T EXCEPT !.ehi_process_names = R.ProcessNames]

\* ------------------------------------------------------------------------
\* The sync engine: main() of scripts/sync-ehi.mjs, one action per await
\* ------------------------------------------------------------------------

\* let sqlPool = null; let pgClient = null; ... (the locals of a fresh run)
mainLocals ==
  [pc |-> "idle", syncLogId |-> 0, orderIdMap |-> <<>>, itemIdMap |-> <<>>,
   carpetCount |-> 0, rs |-> <<>>, i |-> 0, j |-> 0, err |-> "", exit |-> 0,
   committed |-> FALSE,
   found |-> [orders |-> {}, details |-> {}, stocks |-> {}]]

\* Awaits before the sync log row exists: a rejection goes to the outer catch.
OuterPcs == {"connect_sql", "connect_pg", "log_insert"}

\* Awaits of the middle try, outside the transaction's try.
MiddlePcs == {"proc_names", "begin"}

\* Awaits of the innermost try (catch (txErr) { ROLLBACK; throw }).
InnerPcs == {"q_orders", "del_carpets", "del_items", "del_orders", "ins_order",
             "q_items", "ins_item", "q_carpets", "ins_carpets", "commit",
             "log_success"}

HandlerPcs == {"rollback", "log_error"}

Running == sync.pc \in OuterPcs \cup MiddlePcs \cup InnerPcs \cup HandlerPcs

R == RemoteData[remote]

Goto(pc) == sync' = [sync EXCEPT !.pc = pc]

\* The process ending with status 0 whatever the catch blocks pass.
Ended_Zero(code) == [sync EXCEPT !.pc = "done", !.exit = 0]

\* The process ends: its connection closes, which discards an open transaction.
Ended(code) == [sync EXCEPT !.pc = "done", !.exit = code]

\* node scripts/sync-ehi.mjs (the external scheduler starts one run at a time)
Start ==
  /\ sync.pc \in {"idle", "done"}
  /\ runs < MaxRuns
  /\ runs' = runs + 1
  /\ sync' = [mainLocals EXCEPT !.pc = "connect_sql"]
  /\ before' = Mirror(db)
  /\ UNCHANGED <<remote, db, tx, seq, clock, gens, faults>>
  /\ UNCHANGED <<seen, live, req, cls, ui, procs, tracker>>

\* sqlPool = await sql.connect(EHI_SQL_CONFIG)
ConnectSql ==
  /\ sync.pc = "connect_sql"
  /\ Goto("connect_pg")
  /\ UNCHANGED <<remote, db, tx, seq, runs, clock, before, gens, faults>>
  /\ UNCHANGED <<seen, live, req, cls, ui, procs, tracker>>

\* if (!EHI_PG_URL) throw ...; await pgClient.connect()
ConnectPg ==
  /\ sync.pc = "connect_pg"
  /\ Goto("log_insert")
  /\ UNCHANGED <<remote, db, tx, seq, runs, clock, before, gens, faults>>
  /\ UNCHANGED <<seen, live, req, cls, ui, procs, tracker>>

\* const syncLogRes = await pgClient.query(INSERT INTO ehi_sync_log ...)
LogSyncStart ==
  /\ sync.pc = "log_insert"
  /\ Exec(insertSyncLog(Cur, seq.log + 1, NOW))
  /\ seq' = [seq EXCEPT !.log = @ + 1]
  /\ sync' = [sync EXCEPT !.pc = "proc_names", !.syncLogId = seq.log + 1]
  /\ UNCHANGED <<remote, runs, before, gens, faults>>
  /\ clock' = Later
  /\ UNCHANGED <<seen, live, req, cls, ui, procs, tracker>>

\* await syncProcessNames(sqlPool, pgClient)
RefreshProcessNames ==
  /\ sync.pc = "proc_names"
  /\ Exec(syncProcessNames(Cur, R))
  /\ Goto("begin")
  /\ UNCHANGED <<remote, seq, runs, clock, before, gens, faults>>
  /\ UNCHANGED <<seen, live, req, cls, ui, procs, tracker>>

\* await pgClient.query('BEGIN')
Begin ==
  /\ sync.pc = "begin"
  /\ tx' = pgBegin(db, Later)
  /\ Goto("q_orders")
  /\ UNCHANGED <<remote, db, seq, runs, before, gens, faults>>
  /\ clock' = Later
  /\ UNCHANGED <<seen, live, req, cls, ui, procs, tracker>>

\* syncOrders: const result = await sqlPool.query(SELECT ... WHERE om.Status = '0' ...)
SyncOrdersQuery ==
  /\ sync.pc = "q_orders"
  /\ LET result == openOrdersQuery(R) IN
     sync' = [sync EXCEPT !.pc = "del_carpets", !.rs = result,
                !.found.orders = {result[k].OrderId : k \in DOMAIN result}]
  /\ UNCHANGED <<remote, db, tx, seq, runs, clock, before, gens, faults>>
  /\ UNCHANGED <<seen, live, req, cls, ui, procs, tracker>>

\* syncOrders: await pgClient.query('DELETE FROM ehi_carpets')
DeleteCarpets ==
  /\ sync.pc = "del_carpets"
  /\ Exec(deleteCarpets(Cur))
  /\ Goto("del_items")
  /\ UNCHANGED <<remote, seq, runs, clock, before, gens, faults>>
  /\ UNCHANGED <<seen, live, req, cls, ui, procs, tracker>>

\* syncOrders: await pgClient.query('DELETE FROM ehi_order_items')
DeleteOrderItems ==
  /\ sync.pc = "del_items"
  /\ Exec(deleteOrderItems(Cur))
  /\ Goto("del_orders")
  /\ UNCHANGED <<remote, seq, runs, clock, before, gens, faults>>
  /\ UNCHANGED <<seen, live, req, cls, ui, procs, tracker>>

\* After the order loop: syncOrderItems and syncCarpets return at once when
\* the map is empty (if (ehiOrderIds.length === 0) return ...).
AfterOrders(orderIdMap) == IF MapSize(orderIdMap) = 0 THEN "commit" ELSE "q_items"

\* syncOrders: await pgClient.query('DELETE FROM ehi_orders')
DeleteOrders ==
  /\ sync.pc = "del_orders"
  /\ Exec(deleteOrders(Cur))
  /\ Goto(IF sync.rs = <<>> THEN AfterOrders(sync.orderIdMap) ELSE "ins_order")
  /\ UNCHANGED <<remote, seq, runs, clock, before, gens, faults>>
  /\ UNCHANGED <<seen, live, req, cls, ui, procs, tracker>>

\* syncOrders: for (const order of result.recordset) { INSERT ...; orderIdMap.set(...) }
InsertOrder ==
  /\ sync.pc = "ins_order"
  /\ LET order == Head(sync.rs)
         id == seq.orders + 1
         map == MapSet(sync.orderIdMap, order.OrderId, id)
     IN /\ Exec(insertOrder(Cur, id, order, NOW))
        /\ seq' = [seq EXCEPT !.orders = id]
        /\ sync' = [sync EXCEPT !.rs = Tail(@), !.orderIdMap = map,
                      !.pc = IF Tail(sync.rs) = <<>> THEN AfterOrders(map) ELSE @]
  /\ UNCHANGED <<remote, runs, clock, before, gens, faults>>
  /\ UNCHANGED <<seen, live, req, cls, ui, procs, tracker>>

\* syncOrderItems: for (let i = 0; i < ehiOrderIds.length; i += BATCH)
\*   { result = await sqlPool.query(...); allItems = allItems.concat(...) }
SyncOrderItemsQuery ==
  /\ sync.pc = "q_items"
  /\ LET ehiOrderIds == MapKeys(sync.orderIdMap)
         batch == Slice(ehiOrderIds, sync.i, BATCH)
         allItems == sync.rs \o orderItemsQuery(R, batch)
         last == sync.i + BATCH >= Len(ehiOrderIds)
     IN sync' = [sync EXCEPT
          !.rs = allItems,
          !.i = IF last THEN 0 ELSE @ + BATCH,
          !.found.details = @ \cup {allItems[k].OrderDetailId : k \in DOMAIN allItems},
          !.pc = IF ~last THEN "q_items"
                 ELSE IF allItems = <<>> THEN "q_carpets" ELSE "ins_item"]
  /\ UNCHANGED <<remote, db, tx, seq, runs, clock, before, gens, faults>>
  /\ UNCHANGED <<seen, live, req, cls, ui, procs, tracker>>

\* syncOrderItems: for (const item of allItems) { if (!pgOrderId) continue;
\*   INSERT ...; itemIdMap.set(key, id); itemCount++ }
InsertOrderItem ==
  /\ sync.pc = "ins_item"
  /\ LET item == Head(sync.rs)
         known == MapHas(sync.orderIdMap, item.OrderId)
         id == seq.items + 1
         key == <<item.OrderId, item.Item_Finished_Id>>
     IN /\ Exec(IF known
                THEN insertOrderItem(Cur, id, MapGet(sync.orderIdMap, item.OrderId), item)
                ELSE Cur)
        /\ seq' = IF known THEN [seq EXCEPT !.items = id] ELSE seq
        /\ sync' = [sync EXCEPT
             !.rs = Tail(@),
             !.itemIdMap = IF known THEN MapSet(@, key, id) ELSE @,
             !.pc = IF Tail(sync.rs) = <<>> THEN "q_carpets" ELSE @]
  /\ UNCHANGED <<remote, runs, clock, before, gens, faults>>
  /\ UNCHANGED <<seen, live, req, cls, ui, procs, tracker>>

\* After a CarpetNumber query or an insert batch: the next insert batch, the
\* next query, or the end of syncCarpets.
AfterCarpets(rows, j, i, n) ==
  IF j < Len(rows) THEN "ins_carpets"
  ELSE IF i < n THEN "q_carpets"
  ELSE "commit"

\* syncCarpets: for (let i = 0; i < ehiOrderIds.length; i += SQL_BATCH)
\*   { const result = await sqlPool.query(SELECT ... FROM CarpetNumber ...) ... }
SyncCarpetsQuery ==
  /\ sync.pc = "q_carpets"
  /\ LET ehiOrderIds == MapKeys(sync.orderIdMap)
         orderBatch == Slice(ehiOrderIds, sync.i, SQL_BATCH)
         result == carpetsQuery(R, orderBatch)
     IN sync' = [sync EXCEPT
          !.rs = result, !.j = 0, !.i = @ + SQL_BATCH,
          !.found.stocks = @ \cup {result[k].StockNo : k \in DOMAIN result},
          !.pc = AfterCarpets(result, 0, sync.i + SQL_BATCH, Len(ehiOrderIds))]
  /\ UNCHANGED <<remote, db, tx, seq, runs, clock, before, gens, faults>>
  /\ UNCHANGED <<seen, live, req, cls, ui, procs, tracker>>

\* syncCarpets: for (let j = 0; j < result.recordset.length; j += PG_BATCH)
\*   { ...; await pgClient.query(INSERT INTO ehi_carpets ...); carpetCount += values.length }
InsertCarpets ==
  /\ sync.pc = "ins_carpets"
  /\ LET batch == Slice(sync.rs, sync.j, PG_BATCH) IN
     /\ Exec(insertCarpets(Cur, seq.carpets + 1, batch, sync.itemIdMap))
     /\ seq' = [seq EXCEPT !.carpets = @ + Len(batch)]
     /\ sync' = [sync EXCEPT
          !.carpetCount = @ + Len(batch), !.j = @ + PG_BATCH,
          !.pc = AfterCarpets(sync.rs, sync.j + PG_BATCH, sync.i,
                              MapSize(sync.orderIdMap))]
  /\ UNCHANGED <<remote, runs, clock, before, gens, faults>>
  /\ UNCHANGED <<seen, live, req, cls, ui, procs, tracker>>

\* The tables as created, before any commit.
NoCommit ==
  [m |-> Mirror(CREATE_TABLES_SQL), found |-> mainLocals.found, at |-> 0,
   remote |-> 0]

\* await pgClient.query('COMMIT')
Commit ==
  /\ sync.pc = "commit"
  /\ db' = pgCommit(db, tx)
  /\ tx' = NoTx
  /\ sync' = [sync EXCEPT !.pc = "log_success", !.committed = TRUE]
  /\ gens' = gens \cup {[m |-> Mirror(db'), found |-> sync.found,
                        at |-> tx.start, remote |-> remote]}
  /\ UNCHANGED <<remote, seq, runs, clock, before, faults>>
  /\ UNCHANGED <<seen, live, req, cls, ui, procs, tracker>>

\* await pgClient.query(UPDATE ehi_sync_log SET ... status = 'success' ...);
\* then the finally block, and the process ends with status 0
LogSuccess ==
  /\ sync.pc = "log_success"
  /\ Exec(updateSyncLogSuccess(Cur, sync.syncLogId, NOW, MapSize(sync.orderIdMap),
                               MapSize(sync.itemIdMap), sync.carpetCount))
  /\ sync' = Ended(0)
  /\ UNCHANGED <<remote, seq, runs, before, gens, faults>>
  /\ clock' = Later
  /\ UNCHANGED <<seen, live, req, cls, ui, procs, tracker>>

\* catch (txErr) { await pgClient.query('ROLLBACK'); throw txErr }
Rollback ==
  /\ sync.pc = "rollback"
  /\ db' = pgRollback(db, tx)
  /\ tx' = NoTx
  /\ Goto("log_error")
  /\ UNCHANGED <<remote, seq, runs, clock, before, gens, faults>>
  /\ UNCHANGED <<seen, live, req, cls, ui, procs, tracker>>

\* catch (syncErr) { await pgClient.query(UPDATE ehi_sync_log SET ... status = 'error' ...);
\* throw syncErr } catch (err) { logError(...); process.exit(1) }
LogError ==
  /\ sync.pc = "log_error"
  /\ LET T == updateSyncLogError(Cur, sync.syncLogId, NOW, sync.err) IN
     \* the process exits right after: a write made inside a transaction
     \* that is still open is lost with the connection
     /\ db' = IF tx.open THEN db ELSE T
     /\ tx' = NoTx
  /\ sync' = Ended(1)
  /\ UNCHANGED <<remote, seq, runs, before, gens, faults>>
  /\ clock' = Later
  /\ UNCHANGED <<seen, live, req, cls, ui, procs, tracker>>

\* Where a rejected await of main() continues.
CatchOf(pc) ==
  IF pc \in OuterPcs THEN "done"
  ELSE IF pc \in MiddlePcs THEN "log_error"
  ELSE IF pc \in InnerPcs THEN "rollback"
  ELSE IF pc = "rollback" THEN "log_error"
  ELSE "done"

\* An awaited call rejects (remote or mirror connectivity, a failed statement).
\* A failed COMMIT leaves no transaction; reaching the outer catch ends the
\* process with status 1.
Throw ==
  /\ Running
  /\ faults < MaxFaults
  /\ faults' = faults + 1
  /\ LET to == CatchOf(sync.pc) IN
     /\ sync' = [sync EXCEPT !.pc = to, !.err = sync.pc,
                             !.exit = IF to = "done" THEN 1 ELSE @]
     /\ tx' = IF sync.pc = "commit" \/ to = "done" THEN NoTx ELSE tx
  /\ UNCHANGED <<remote, db, seq, runs, clock, before, gens>>
  /\ UNCHANGED <<seen, live, req, cls, ui, procs, tracker>>

\* The process is terminated from outside (the only cancellation there is).
Kill ==
  /\ Running
  /\ faults < MaxFaults
  /\ faults' = faults + 1
  /\ sync' = Ended(137)
  /\ tx' = NoTx
  /\ UNCHANGED <<remote, db, seq, runs, clock, before, gens>>
  /\ UNCHANGED <<seen, live, req, cls, ui, procs, tracker>>

\* The remote database changes on its own.  It changes between runs: the
\* queries of one run read one state of it.
RemoteChange ==
  /\ ~Running
  /\ \E k \in DOMAIN RemoteData : k # remote /\ remote' = k
  /\ UNCHANGED <<db, tx, seq, sync, runs, clock, before, gens, faults>>
  /\ UNCHANGED <<seen, live, req, cls, ui, procs, tracker>>

\* ------------------------------------------------------------------------
\* The live source (EMPL Neon PostgreSQL): orders, order_items, carpets
\* ------------------------------------------------------------------------

\* orders joined with buyers (code, name; empty when the order has no buyer)
LO(id, ops, status, code, name) ==
  [id |-> id, ops_number |-> ops, status |-> status, buyer_code |-> code,
   buyer_name |-> name]

\* order_items joined with designs
LI(id, oid, qty, design) ==
  [id |-> id, order_id |-> oid, ordered_qty |-> qty, design |-> design]

\* carpets joined with folios and contractors (empty when the carpet has no folio)
LC(id, item, stage, packing, folio, contractor) ==
  [id |-> id, order_item_id |-> item, current_stage |-> stage,
   packing_transferred |-> packing, folio_number |-> folio,
   contractor |-> contractor]

\* The states of the live database the model draws from.
LiveData ==
  << [orders |-> {LO(1, Ids.OPS_25881, "active", Ids.J_01, Ids.JUTE),
                  LO(2, Ids.OPS_25902, "Open", Ids.K_02, Ids.KILIM),
                  LO(3, Ids.OPS_24100, "open", Ids.K_02, Ids.KILIM),
                  LO(4, Ids.OPS_25902, "closed", <<>>, <<>>)},
      order_items |-> {LI(1, 1, 3, Ids.KILIM), LI(2, 2, 2, Ids.JUTE), LI(3, 3, 1, Ids.JUTE),
                       LI(4, 4, 1, Ids.JUTE), LI(5, 2, 1, Ids.KILIM)},
      carpets |-> {LC(1, 1, "weaving", FALSE, Ids.F_7, Ids.RAM),
                   LC(2, 1, "fg_godown", TRUE, Ids.F_8, Ids.RAM),
                   LC(3, 1, "dispatched", TRUE, Ids.F_8, Ids.RAM),
                   LC(4, 2, "bazar", FALSE, <<>>, <<>>),
                   LC(5, 2, "finishing_issued", FALSE, <<>>, <<>>),
                   LC(6, 3, "invoiced", TRUE, <<>>, <<>>)}],
     [orders |-> {LO(1, Ids.OPS_25881, "Active", Ids.J_01, Ids.JUTE)},
      order_items |-> {LI(1, 1, 2, Ids.KILIM)},
      carpets |-> {}] >>

\* ------------------------------------------------------------------------
\* The dual-source query engine: netlify/functions/api.mts (WIP API)
\* ------------------------------------------------------------------------

\* A settled promise of rows: fulfilled with the rows, or rejected.
Fulfilled(rows) == [rejected |-> FALSE, rows |-> rows]

Rejected == [rejected |-> TRUE, rows |-> <<>>]

\* COUNT(CASE WHEN p(c) THEN 1 END) over the carpets of a group
CountIf(cs, p(_)) == Cardinality({c \in cs : p(c)})

\* LOWER(field) LIKE '%s%'
Like(field, s) == Contains(toLowerCase(field), s)

EM_ == <<"E","M","-">>

EM_25_ == <<"E","M","-","2","5","-">>

OPS_25000 == <<"O","P","S","-","2","5","0","0","0">>

\* queryEhiWIP: the WHERE clause built from the fixed conditions and the filters
ehiWhere(o, oi, filters) ==
  /\ o.status = "0"
  /\ StartsWith(o.order_no, EM_)
  /\ StrGeq(o.order_no, EM_25_)
  /\ (filters.buyer # <<>> => o.buyer_code = filters.buyer)
  /\ (filters.search # <<>> =>
        LET s == toLowerCase(filters.search) IN
        \/ Like(o.order_no, s) \/ Like(o.buyer_code, s)
        \/ Like(o.local_order, s) \/ Like(oi.design_name, s))

\* The mirror row counting its packed units as dispatched as well.
ehiRow_PackedAsDispatched(T, o, oi) ==
  LET cs == {c \in T.ehi_carpets : c.order_item_id = Num(oi.id)}
      on_loom(c) == c.wip_stage = "on_loom"
      bazar(c) == c.wip_stage # "on_loom"
      finishing(c) == c.wip_stage = "finishing"
      fg_godown(c) == c.wip_stage = "fg_godown"
      packed(c) == c.wip_stage = "packed"
  IN [company |-> "EHI", opsNo |-> o.order_no, buyerCode |-> o.buyer_code,
      buyerName |-> <<>>, folioNo |-> <<>>, contractor |-> <<>>,
      design |-> oi.design_name, totalPcs |-> oi.ordered_qty,
      onLoom |-> CountIf(cs, on_loom), bazarPcs |-> CountIf(cs, bazar),
      finishingPcs |-> CountIf(cs, finishing),
      fgGodownPcs |-> CountIf(cs, fg_godown),
      packedPcs |-> CountIf(cs, packed), dispatchedPcs |-> CountIf(cs, packed),
      orderId |-> o.id, orderItemId |-> oi.id]

\* queryEhiWIP: one result row, mapped to a WIPRow
ehiRow(T, o, oi) ==
  LET cs == {c \in T.ehi_carpets : c.order_item_id = Num(oi.id)}
      on_loom(c) == c.wip_stage = "on_loom"
      bazar(c) == c.wip_stage # "on_loom"
      finishing(c) == c.wip_stage = "finishing"
      fg_godown(c) == c.wip_stage = "fg_godown"
      packed(c) == c.wip_stage = "packed"
  IN [company |-> "EHI", opsNo |-> o.order_no, buyerCode |-> o.buyer_code,
      buyerName |-> <<>>, folioNo |-> <<>>, contractor |-> <<>>,
      design |-> oi.design_name, totalPcs |-> oi.ordered_qty,
      onLoom |-> CountIf(cs, on_loom), bazarPcs |-> CountIf(cs, bazar),
      finishingPcs |-> CountIf(cs, finishing),
      fgGodownPcs |-> CountIf(cs, fg_godown),
      packedPcs |-> CountIf(cs, packed), dispatchedPcs |-> 0,
      orderId |-> o.id, orderItemId |-> oi.id]

\* ORDER BY o.order_no / o.ops_number, oi.id (then the folio, which the
\* query leaves open)
ByOpsItem(a, b) ==
  \/ StrLess(a.opsNo, b.opsNo)
  \/ a.opsNo = b.opsNo /\ a.orderItemId < b.orderItemId
  \/ a.opsNo = b.opsNo /\ a.orderItemId = b.orderItemId
       /\ StrLess(a.folioNo, b.folioNo)

\* queryEhiWIP: the SELECT over the mirror tables T
ehiSelect(T, filters) ==
  OrderedSeq({ehiRow(T, o, oi) : <<o, oi>> \in
               {p \in T.ehi_orders \X T.ehi_order_items :
                  p[2].order_id = p[1].id /\ ehiWhere(p[1], p[2], filters)}},
             ByOpsItem)

\* queryEhiWIP querying the mirror whether or not EHI_DATABASE_URL is set.
queryEhiWIP_NoUrlCheck(dbUrl, T, filters, throws) ==
  Fulfilled(IF throws THEN <<>> ELSE ehiSelect(T, filters))

\* queryEhiWIP without its catch: a throwing query rejects the promise.
queryEhiWIP_NoCatch(dbUrl, T, filters, throws) ==
  IF ~dbUrl THEN Fulfilled(<<>>)
  ELSE IF throws THEN Rejected
  ELSE Fulfilled(ehiSelect(T, filters))

\* queryEhiWIP(filters): no rows without EHI_DATABASE_URL or when the query throws
queryEhiWIP(dbUrl, T, filters, throws) ==
  Fulfilled(IF ~dbUrl THEN <<>>
            ELSE IF throws THEN <<>>
            ELSE ehiSelect(T, filters))

\* queryEmplWIP: the WHERE clause
emplWhere(o, oi, filters) ==
  /\ o.status \in {"active", "open", "Active", "Open"}
  /\ StrGeq(o.ops_number, OPS_25000)
  /\ (filters.buyer # <<>> => o.buyer_code = filters.buyer)
  /\ (filters.search # <<>> =>
        LET s == toLowerCase(filters.search) IN
        \/ Like(o.ops_number, s) \/ Like(o.buyer_code, s)
        \/ Like(o.buyer_name, s) \/ Like(oi.design, s))

\* queryEmplWIP: the groups of one order item: one per folio of its carpets,
\* or a single group without carpets (LEFT JOIN)
emplGroups(L, oi) ==
  LET cs == {c \in L.carpets : c.order_item_id = oi.id}
  IN IF cs = {} THEN {[folio |-> <<>>, contractor |-> <<>>, cs |-> {}]}
     ELSE {[folio |-> c.folio_number, contractor |-> c.contractor,
            cs |-> {d \in cs : d.folio_number = c.folio_number
                               /\ d.contractor = c.contractor}] : c \in cs}

\* queryEmplWIP: one result row, mapped to a WIPRow
emplRow(o, oi, g) ==
  LET weaving(c) == c.current_stage = "weaving"
      bazar(c) == c.current_stage = "bazar"
      finishing(c) == c.current_stage \in {"finishing", "finishing_issued"}
      fg_godown(c) == c.current_stage \in {"fg_godown", "stock", "inspection"}
      packed(c) == c.packing_transferred
                   /\ c.current_stage \notin {"dispatched", "invoiced"}
      dispatched(c) == c.current_stage \in {"dispatched", "invoiced"}
  IN [company |-> "EMPL", opsNo |-> o.ops_number, buyerCode |-> o.buyer_code,
      buyerName |-> o.buyer_name, folioNo |-> g.folio,
      contractor |-> g.contractor, design |-> oi.design,
      totalPcs |-> oi.ordered_qty,
      onLoom |-> CountIf(g.cs, weaving), bazarPcs |-> CountIf(g.cs, bazar),
      finishingPcs |-> CountIf(g.cs, finishing),
      fgGodownPcs |-> CountIf(g.cs, fg_godown),
      packedPcs |-> CountIf(g.cs, packed),
      dispatchedPcs |-> CountIf(g.cs, dispatched),
      orderId |-> o.id, orderItemId |-> oi.id]

\* queryEmplWIP: the SELECT over the live tables L
emplSelect(L, filters) ==
  OrderedSeq(UNION {{emplRow(p[1], p[2], g) : g \in emplGroups(L, p[2])} :
               p \in {q \in L.orders \X L.order_items :
                        q[2].order_id = q[1].id /\ emplWhere(q[1], q[2], filters)}},
             ByOpsItem)

\* queryEmplWIP(filters): no rows without EMPL_DATABASE_URL or when the query throws
queryEmplWIP(dbUrl, L, filters, throws) ==
  Fulfilled(IF ~dbUrl THEN <<>>
            ELSE IF throws THEN <<>>
            ELSE emplSelect(L, filters))

\* (1000 * 60 * 60): milliseconds in an hour
HourMs == 3600000

StatusError == [status |-> "error", lastSyncedAt |-> NullV]

\* SELECT MAX(synced_at) as last_sync FROM ehi_orders (NULL over no rows)
lastSyncQuery(T) ==
  IF T.ehi_orders = {} THEN NullV
  ELSE Num(CHOOSE t \in {o.synced_at : o \in T.ehi_orders} :
             \A o \in T.ehi_orders : o.synced_at <= t)

\* The staleness test with >= for >.
staleness_Geq(now, syncTime) ==
  IF now - syncTime >= 2 * HourMs THEN "stale" ELSE "synced"

\* hoursSinceSync = (Date.now() - syncTime.getTime()) / (1000 * 60 * 60);
\* hoursSinceSync > 2 ? 'stale' : 'synced'.  Dividing by the positive constant
\* keeps the order, and 2 * HourMs / HourMs is exactly 2.
staleness(now, syncTime) ==
  IF now - syncTime > 2 * HourMs THEN "stale" ELSE "synced"

\* getEhiSyncStatus(): times are milliseconds, lastSyncedAt the same instant
\* (toISOString)
getEhiSyncStatus(dbUrl, T, now, throws) ==
  IF ~dbUrl THEN StatusError
  ELSE IF throws THEN StatusError
  ELSE LET lastSync == lastSyncQuery(T) IN
       IF lastSync.t = "null" THEN StatusError
       ELSE [status |-> staleness(now, lastSync.v), lastSyncedAt |-> lastSync]

\* arr.reduce((sum, r) => sum + f(r), 0)
RECURSIVE Reduce(_, _)
Reduce(arr, field) ==
  IF arr = <<>> THEN 0 ELSE Head(arr)[field] + Reduce(Tail(arr), field)

\* arr.filter(r => r.company === company)
OfCompany(arr, company) == SelectSeq(arr, LAMBDA r : r.company = company)

\* The summary counting records where the handler counts distinct orders.
summaryOf_CountRows(allData) ==
  LET emplRows == OfCompany(allData, "EMPL")
      ehiRows == OfCompany(allData, "EHI")
      emplOps == DOMAIN emplRows
      ehiOps == DOMAIN ehiRows
  IN [totalOrders |-> Cardinality(emplOps) + Cardinality(ehiOps),
      totalPcs |-> Reduce(allData, "totalPcs"),
      onLoom |-> Reduce(allData, "onLoom"),
      inBazar |-> Reduce(allData, "bazarPcs"),
      inFinishing |-> Reduce(allData, "finishingPcs"),
      packed |-> Reduce(allData, "packedPcs"),
      dispatched |-> Reduce(allData, "dispatchedPcs"),
      byCompany |->
        [EMPL |-> [orders |-> Cardinality(emplOps),
                   pcs |-> Reduce(emplRows, "totalPcs")],
         EHI |-> [orders |-> Cardinality(ehiOps),
                  pcs |-> Reduce(ehiRows, "totalPcs")]]]

\* handler: the summary over allData
summaryOf(allData) ==
  LET emplRows == OfCompany(allData, "EMPL")
      ehiRows == OfCompany(allData, "EHI")
      emplOps == {emplRows[k].opsNo : k \in DOMAIN emplRows}
      ehiOps == {ehiRows[k].opsNo : k \in DOMAIN ehiRows}
  IN [totalOrders |-> Cardinality(emplOps) + Cardinality(ehiOps),
      totalPcs |-> Reduce(allData, "totalPcs"),
      onLoom |-> Reduce(allData, "onLoom"),
      inBazar |-> Reduce(allData, "bazarPcs"),
      inFinishing |-> Reduce(allData, "finishingPcs"),
      packed |-> Reduce(allData, "packedPcs"),
      dispatched |-> Reduce(allData, "dispatchedPcs"),
      byCompany |->
        [EMPL |-> [orders |-> Cardinality(emplOps),
                   pcs |-> Reduce(emplRows, "totalPcs")],
         EHI |-> [orders |-> Cardinality(ehiOps),
                  pcs |-> Reduce(ehiRows, "totalPcs")]]]

\* handler: the response built from the three results
responseOf(emplData, ehiData, ehiSyncStatus) ==
  LET allData == emplData \o ehiData IN
  [code |-> 200, success |-> TRUE, data |-> allData,
   syncStatus |-> [empl |-> "live", ehi |-> ehiSyncStatus],
   summary |-> summaryOf(allData)]

\* ------------------------------------------------------------------------
\* handler(): one WIP request at a time, its three queries in any order
\* ------------------------------------------------------------------------

\* Half-width of the windows of clock offsets explored around the moment of
\* the sync and around the staleness threshold.
Fuzz == 1

Companies == {"all", "EMPL", "EHI"}

Buyers == {<<>>, Ids.J_01, Ids.K_02}

Searches == {<<>>, <<"e","m","-","2","5">>, <<"J","U","T","E">>}

NoFilters == [buyer |-> <<>>, search |-> <<>>]

\* A promise not settled yet; hung: its query will never answer.
Pending ==
  [done |-> FALSE, threw |-> FALSE, rejected |-> FALSE, data |-> <<>>,
   hung |-> FALSE]

\* A settled query: its promise, and whether its statement threw.
Settled(promise, threw) ==
  [done |-> TRUE, threw |-> threw, rejected |-> promise.rejected,
   data |-> promise.rows, hung |-> FALSE]

NoResponse == [code |-> 0]

NoRequest ==
  [pc |-> "idle", company |-> "all", filters |-> NoFilters,
   env |-> [EMPL_DATABASE_URL |-> TRUE, EHI_DATABASE_URL |-> TRUE],
   empl |-> Pending, ehi |-> Pending,
   status |-> [done |-> FALSE, threw |-> FALSE, value |-> StatusError],
   response |-> NoResponse]

\* if (method !== 'GET') return jsonResponse({ success: false, ... }, 405)
MethodNotAllowed ==
  /\ req.pc \in {"idle", "responded"}
  /\ req' = [NoRequest EXCEPT !.pc = "responded",
                              !.response = [code |-> 405, success |-> FALSE]]
  /\ UNCHANGED <<remote, db, tx, seq, sync, runs, clock, before, gens, faults, seen, live, cls, ui, procs, tracker>>

\* GET /wip?company=&buyer=&search= : the filters are parsed and the three
\* promises created; a source the company filter excludes resolves to [] at once
Request ==
  /\ req.pc \in {"idle", "responded"}
  /\ \E company \in Companies, buyer \in Buyers, search \in Searches,
        emplUrl \in BOOLEAN, ehiUrl \in BOOLEAN :
       req' = [NoRequest EXCEPT
         !.pc = "pending", !.company = company,
         !.filters = [buyer |-> buyer, search |-> search],
         !.env = [EMPL_DATABASE_URL |-> emplUrl, EHI_DATABASE_URL |-> ehiUrl],
         !.empl = IF company = "EHI" THEN Settled(Fulfilled(<<>>), FALSE) ELSE Pending,
         !.ehi = IF company = "EMPL" THEN Settled(Fulfilled(<<>>), FALSE) ELSE Pending]
  \* useWIP: a query that has not answered yet has no data (rows = [])
  /\ ui' = [rows |-> <<>>, bars |-> <<>>, viewMode |-> ui.viewMode,
            openOpsData |-> ui.openOpsData, groupedRows |-> <<>>,
            dispatchedCount |-> 0]
  /\ UNCHANGED <<remote, db, tx, seq, sync, runs, clock, before, gens, faults, seen, live, cls, procs, tracker>>

\* queryEmplWIP(filters) resolves
EmplQuery ==
  /\ req.pc = "pending" /\ ~req.empl.done /\ ~req.empl.hung
  /\ \E throws \in BOOLEAN :
       req' = [req EXCEPT !.empl =
         Settled(queryEmplWIP(req.env.EMPL_DATABASE_URL, LiveData[live],
                              req.filters, throws),
                 req.env.EMPL_DATABASE_URL /\ throws)]
  /\ UNCHANGED <<remote, db, tx, seq, sync, runs, clock, before, gens, faults, seen, live, cls, ui, procs, tracker>>

\* queryEhiWIP(filters) resolves: its statement reads the committed tables
EhiQuery ==
  /\ req.pc = "pending" /\ ~req.ehi.done /\ ~req.ehi.hung
  /\ \E throws \in BOOLEAN :
       req' = [req EXCEPT !.ehi =
         Settled(queryEhiWIP(req.env.EHI_DATABASE_URL, db, req.filters, throws),
                 req.env.EHI_DATABASE_URL /\ throws)]
  /\ UNCHANGED <<remote, db, tx, seq, sync, runs, clock, before, gens, faults, seen, live, cls, ui, procs, tracker>>

\* getEhiSyncStatus() resolves
StatusQuery ==
  /\ req.pc = "pending" /\ ~req.status.done
  /\ \E throws \in BOOLEAN :
       req' = [req EXCEPT !.status =
         [done |-> TRUE, threw |-> req.env.EHI_DATABASE_URL /\ throws,
          value |-> getEhiSyncStatus(req.env.EHI_DATABASE_URL, db, clock, throws)]]
  /\ UNCHANGED <<remote, db, tx, seq, sync, runs, clock, before, gens, faults, seen, live, cls, ui, procs, tracker>>

\* await sql`...` of queryEmplWIP on a database that never answers: the
\* call sets no timeout, so its promise stays pending
EmplHang ==
  /\ req.pc = "pending" /\ ~req.empl.done /\ ~req.empl.hung
  /\ req.env.EMPL_DATABASE_URL
  /\ req' = [req EXCEPT !.empl.hung = TRUE]
  /\ UNCHANGED <<remote, db, tx, seq, sync, runs, clock, before, gens, faults, seen, live, cls, ui, procs, tracker>>

\* await sql`...` of queryEhiWIP on a database that never answers
EhiHang ==
  /\ req.pc = "pending" /\ ~req.ehi.done /\ ~req.ehi.hung
  /\ req.env.EHI_DATABASE_URL
  /\ req' = [req EXCEPT !.ehi.hung = TRUE]
  /\ UNCHANGED <<remote, db, tx, seq, sync, runs, clock, before, gens, faults, seen, live, cls, ui, procs, tracker>>

\* const [emplData, ehiData, ehiSyncStatus] = await Promise.all([...]);
\* ...; return jsonResponse({ success: true, data: allData, syncStatus, summary })
\* } catch (error) { return jsonResponse({ success: false, ... }, 500) }
Respond ==
  /\ req.pc = "pending"
  /\ req.empl.done /\ req.ehi.done /\ req.status.done
  /\ req' = [req EXCEPT !.pc = "responded",
       !.response = IF req.empl.rejected \/ req.ehi.rejected
                    THEN [code |-> 500, success |-> FALSE]
                    ELSE responseOf(req.empl.data, req.ehi.data, req.status.value)]
  /\ UNCHANGED <<remote, db, tx, seq, sync, runs, clock, before, gens, faults, seen, live, cls, ui, procs, tracker>>

\* What the statement of another connection reads: the committed tables,
\* and whether the sync connection held uncommitted changes at that moment.
Snapshot(d, t) ==
  [tables |-> Mirror(d), dirty |-> t.open /\ Mirror(t.work) # Mirror(d)]

\* The mirror SELECT of a WIP request running on its own connection while
\* the sync engine works: it reads the committed tables.
ConcurrentQuery ==
  /\ seen' = Snapshot(db, tx)
  /\ UNCHANGED <<remote, db, tx, seq, sync, runs, clock, before, gens, faults, live, req, cls, ui, procs, tracker>>

\* ------------------------------------------------------------------------
\* The WIP page (src/unnamed/part_001)
\* ------------------------------------------------------------------------

Max(a, b) == IF a >= b THEN a ELSE b

\* The six segments of StageBar, summed: segments.reduce((sum, s) => sum + s.count, 0)
totalTracked(row) ==
  row.onLoom + row.bazarPcs + row.finishingPcs + row.fgGodownPcs
    + row.packedPcs + row.dispatchedPcs

\* StageBar({ row }): total = row.totalPcs || 1,
\* untracked = Math.max(0, total - totalTracked)
StageBar(row) ==
  LET total == IF row.totalPcs = 0 THEN 1 ELSE row.totalPcs
  IN [total |-> total, totalTracked |-> totalTracked(row),
      untracked |-> Max(0, total - totalTracked(row))]

\* const key = `${row.company}-${row.opsNo}`
groupKey(row) == <<row.company, "-">> \o row.opsNo

\* map.set(key, { ..., itemCount: 1, ..., items: [row] })
newGroup(row) ==
  [company |-> row.company, opsNo |-> row.opsNo, buyerCode |-> row.buyerCode,
   buyerName |-> row.buyerName, itemCount |-> 1, totalPcs |-> row.totalPcs,
   onLoom |-> row.onLoom, bazarPcs |-> row.bazarPcs,
   finishingPcs |-> row.finishingPcs, fgGodownPcs |-> row.fgGodownPcs,
   packedPcs |-> row.packedPcs, dispatchedPcs |-> row.dispatchedPcs,
   items |-> <<row>>]

\* A further row of a group counted without adding its pieces.
addToGroup_CountOnly(existing, row) ==
  [existing EXCEPT !.itemCount = @ + 1, !.items = Append(@, row)]

\* existing.itemCount += 1; existing.totalPcs += row.totalPcs; ...;
\* existing.items.push(row)
addToGroup(existing, row) ==
  [existing EXCEPT
     !.itemCount = @ + 1, !.totalPcs = @ + row.totalPcs,
     !.onLoom = @ + row.onLoom, !.bazarPcs = @ + row.bazarPcs,
     !.finishingPcs = @ + row.finishingPcs,
     !.fgGodownPcs = @ + row.fgGodownPcs, !.packedPcs = @ + row.packedPcs,
     !.dispatchedPcs = @ + row.dispatchedPcs, !.items = Append(@, row)]

\* for (const row of rows) { ... } over the Map of groupByOps
RECURSIVE groupLoop(_, _)
groupLoop(rows, map) ==
  IF rows = <<>> THEN map
  ELSE LET row == Head(rows)
           key == groupKey(row)
       IN groupLoop(Tail(rows),
            IF MapHas(map, key)
            THEN MapSet(map, key, addToGroup(MapGet(map, key), row))
            ELSE MapSet(map, key, newGroup(row)))

\* groupByOps(rows): Array.from(map.values())
groupByOps(rows) ==
  LET map == groupLoop(rows, <<>>) IN [i \in DOMAIN map |-> map[i].v]

IsDigit(c) == c \in Range(Digits)

\* \d+ from position i on: the last position of the longest run of digits
\* (i - 1 when s[i] is no digit)
DigitRun(s, i) ==
  CHOOSE j \in (i - 1)..Len(s) :
    /\ \A k \in i..j : IsDigit(s[k])
    /\ j = Len(s) \/ ~IsDigit(s[j + 1])

\* /EM-\d+-(\d+)/ matched from position i on
MatchesAt(s, i) ==
  /\ i + 2 <= Len(s)
  /\ s[i] = "E" /\ s[i + 1] = "M" /\ s[i + 2] = "-"
  /\ LET a == DigitRun(s, i + 3) IN
       /\ a >= i + 3
       /\ a + 1 <= Len(s) /\ s[a + 1] = "-"
       /\ DigitRun(s, a + 2) >= a + 2

\* parseInt(digits, 10)
RECURSIVE parseInt(_)
parseInt(ds) ==
  IF ds = <<>> THEN 0
  ELSE 10 * parseInt(SubSeq(ds, 1, Len(ds) - 1))
         + (IndexOf(Digits, ds[Len(ds)]) - 1)

\* extractOpsSequence(opsNo): opsNo.match(/EM-\d+-(\d+)/), leftmost match
extractOpsSequence(opsNo) ==
  LET starts == {i \in DOMAIN opsNo : MatchesAt(opsNo, i)} IN
  IF starts = {} THEN NullV
  ELSE LET i == CHOOSE i \in starts : \A k \in starts : i <= k
           a == DigitRun(opsNo, i + 3)
       IN Num(parseInt(SubSeq(opsNo, a + 2, DigitRun(opsNo, a + 2))))

\* String.prototype.trim() over the identifiers' alphabet
trim(s) ==
  LET inked == {i \in DOMAIN s : s[i] # " "} IN
  IF inked = {} THEN <<>>
  ELSE SubSeq(s, CHOOSE i \in inked : \A k \in inked : i <= k,
                 CHOOSE i \in inked : \A k \in inked : k <= i)

\* The result of fetchOpenOps() when there is no usable list.
NoOpenOps ==
  [ok |-> FALSE, fetched |-> FALSE, opsNumbers |-> <<>>, maxSequence |-> 0]

\* How the request of the open list ends: fetch() rejects, the status is not
\* 2xx, the body says success: false, or the body carries the list.
Responses == {"rejected", "not_ok", "no_success", "ok"}

\* for (const ops of opsNumbers) { if (seq && seq > maxSeq) maxSeq = seq }
RECURSIVE maxSeqLoop(_, _)
maxSeqLoop(opsNumbers, maxSeq) ==
  IF opsNumbers = <<>> THEN maxSeq
  ELSE LET opsSeq == extractOpsSequence(Head(opsNumbers)) IN
       maxSeqLoop(Tail(opsNumbers),
         IF opsSeq # NullV /\ opsSeq.v # 0 /\ opsSeq.v > maxSeq THEN opsSeq.v ELSE maxSeq)

\* fetchOpenOps(): null (ok = FALSE) when the request fails, the body says
\* no success, or the list is empty
fetchOpenOps(res, opsNumbers) ==
  IF res # "ok" \/ opsNumbers = <<>> THEN [NoOpenOps EXCEPT !.fetched = TRUE]
  ELSE [ok |-> TRUE, fetched |-> TRUE, opsNumbers |-> opsNumbers,
        maxSequence |-> maxSeqLoop(opsNumbers, 0)]

\* filterOpenOps with the sequence rule also keeping opsSeq = maxSequence.
filterOpenOps_Geq(groups, openOps) ==
  LET openSet == {trim(toLowerCase(o)) : o \in Range(openOps.opsNumbers)}
      keep(group) ==
        LET opsSeq == extractOpsSequence(group.opsNo) IN
        \/ trim(toLowerCase(group.opsNo)) \in openSet
        \/ opsSeq # NullV /\ opsSeq.v # 0 /\ opsSeq.v >= openOps.maxSequence
  IN SelectSeq(groups, keep)

\* filterOpenOps(groups, openOps)
filterOpenOps(groups, openOps) ==
  LET openSet == {trim(toLowerCase(o)) : o \in Range(openOps.opsNumbers)}
      keep(group) ==
        LET opsLower == trim(toLowerCase(group.opsNo))
            opsSeq == extractOpsSequence(group.opsNo)
        IN \/ opsLower \in openSet
           \/ opsSeq # NullV /\ opsSeq.v # 0 /\ opsSeq.v > openOps.maxSequence
  IN SelectSeq(groups, keep)

\* groupedRows filtered in the open view whether or not a list arrived.
groupedRowsOf_AlwaysFilter(rows, viewMode, openOpsData) ==
  IF viewMode = "all" THEN groupByOps(rows)
  ELSE filterOpenOps(groupByOps(rows), openOpsData)

\* groupedRows with the two view modes exchanged.
groupedRowsOf_Swapped(rows, viewMode, openOpsData) ==
  IF viewMode = "open" \/ ~openOpsData.ok THEN groupByOps(rows)
  ELSE filterOpenOps(groupByOps(rows), openOpsData)

\* groupedRows of WIPPage: every group in the 'all' view or without an open
\* list, else the open groups
groupedRowsOf(rows, viewMode, openOpsData) ==
  IF viewMode = "all" \/ ~openOpsData.ok THEN groupByOps(rows)
  ELSE filterOpenOps(groupByOps(rows), openOpsData)

\* const dispatchedCount = allGroupedRows.length -
\*   (openOpsData ? filterOpenOps(allGroupedRows, openOpsData).length : 0)
dispatchedCountOf(rows, openOpsData) ==
  Len(groupByOps(rows)) -
    (IF openOpsData.ok THEN Len(filterOpenOps(groupByOps(rows), openOpsData))
     ELSE 0)

\* What WIPPage renders from its state.
Page(rows, viewMode, openOpsData) ==
  [rows |-> rows, bars |-> [i \in DOMAIN rows |-> StageBar(rows[i])],
   viewMode |-> viewMode, openOpsData |-> openOpsData,
   groupedRows |-> groupedRowsOf(rows, viewMode, openOpsData),
   dispatchedCount |-> dispatchedCountOf(rows, openOpsData)]

\* The page before its first fetch: useState('open'), no data yet.
NoView == Page(<<>>, "open", NoOpenOps)

\* The page receives a successful response: rows = data?.data || [], then
\* WIPTable renders a StageBar per row and the groups of the rows
RenderStageBars ==
  /\ req.pc = "responded" /\ req.response.code = 200
  /\ ui' = Page(req.response.data, ui.viewMode, ui.openOpsData)
  /\ UNCHANGED <<remote, db, tx, seq, sync, runs, clock, before, gens, faults, seen, live, req, cls, procs, tracker>>

\* useQuery({ queryKey: ['wip-open-ops'], queryFn: fetchOpenOps, staleTime: 30 min }):
\* the open list arrives once and is then served from the cache
FetchOpenOps(res, opsNumbers) ==
  /\ ~ui.openOpsData.ok
  /\ ui' = Page(ui.rows, ui.viewMode, fetchOpenOps(res, opsNumbers))
  /\ UNCHANGED <<remote, db, tx, seq, sync, runs, clock, before, gens, faults, seen, live, req, cls, procs, tracker>>

\* setViewMode('open' | 'all')
SetViewMode(mode) ==
  /\ ui.viewMode # mode
  /\ ui' = Page(ui.rows, mode, ui.openOpsData)
  /\ UNCHANGED <<remote, db, tx, seq, sync, runs, clock, before, gens, faults, seen, live, req, cls, procs, tracker>>

\* ------------------------------------------------------------------------
\* A whole successful run, statement after statement
\* ------------------------------------------------------------------------

RECURSIVE loadOrders(_, _, _, _)
loadOrders(T, map, rs, now) ==
  IF rs = <<>> THEN [T |-> T, map |-> map]
  ELSE LET id == Cardinality(T.ehi_orders) + 1 IN
       loadOrders(insertOrder(T, id, Head(rs), now),
                  MapSet(map, Head(rs).OrderId, id), Tail(rs), now)

RECURSIVE loadItems(_, _, _, _)
loadItems(T, orderIdMap, map, rs) ==
  IF rs = <<>> THEN [T |-> T, map |-> map]
  ELSE LET id == Cardinality(T.ehi_order_items) + 1
           item == Head(rs)
       IN loadItems(insertOrderItem(T, id, MapGet(orderIdMap, item.OrderId), item),
                    orderIdMap,
                    MapSet(map, <<item.OrderId, item.Item_Finished_Id>>, id),
                    Tail(rs))

\* main() on freshly created tables at time t0, every await fulfilled, for
\* fewer than BATCH orders and PG_BATCH units
fullSync(Rd, t0) ==
  LET T0 == syncProcessNames(insertSyncLog(CREATE_TABLES_SQL, 1, t0), Rd)
      T1 == deleteOrders(deleteOrderItems(deleteCarpets(T0)))
      o == loadOrders(T1, <<>>, openOrdersQuery(Rd), t0 + 1)
      ids == MapKeys(o.map)
      i == loadItems(o.T, o.map, <<>>, orderItemsQuery(Rd, ids))
      units == carpetsQuery(Rd, ids)
      T2 == insertCarpets(i.T, 1, units, i.map)
  IN updateSyncLogSuccess(T2, 1, t0 + 2, MapSize(o.map), MapSize(i.map), Len(units))

\* ------------------------------------------------------------------------
\* The stage classifier applied to a process code
\* ------------------------------------------------------------------------

NotClassified == [input |-> NullV, output |-> "none"]

\* The raw codes explored: the integers around the valid range, a code far
\* outside it, and a missing code.
ProcessCodes ==
  {Num(n) : n \in (0 - CodeSpan)..(ValidMax + CodeSpan)} \cup {Num(999), NullV}

\* const wipStage = getWipStage(carpet.CurrentProStatus)
Classify ==
  /\ cls.output = "none"
  /\ cls' = [cls EXCEPT !.output = getWipStage(cls.input)]
  /\ UNCHANGED <<remote, db, tx, seq, sync, runs, clock, before, gens, faults, seen, live, req, ui, procs, tracker>>

\* ------------------------------------------------------------------------
\* Two invocations of main() on one mirror: nothing in the engine keeps a
\* second run from starting while the first is in its transaction
\* ------------------------------------------------------------------------

MirrorTables == {"ehi_orders", "ehi_order_items", "ehi_carpets"}

\* A connection that has not begun: it deleted no row and inserted none.
idleRun ==
  [pc |-> "idle", start |-> 0, del |-> [t \in MirrorTables |-> {}],
   ins |-> [t \in MirrorTables |-> {}], rs |-> <<>>, orderIdMap |-> <<>>,
   itemIdMap |-> <<>>, carpetCount |-> 0, i |-> 0, j |-> 0]

NoProcs == [run |-> [p \in {1, 2} |-> idleRun], overlapped |-> FALSE]

InTx(r) == r.pc \notin {"idle", "done"}

\* READ COMMITTED: a statement sees the committed rows, less the rows its own
\* transaction deleted, plus the rows its own transaction inserted.
View(r) ==
  [t \in DOMAIN db |->
     IF t \in MirrorTables THEN (db[t] \ r.del[t]) \cup r.ins[t] ELSE db[t]]

\* A DELETE waits for the row locks of the other connection's open
\* transaction: it proceeds when no row it deletes is deleted there.
Waits(r, other, T) ==
  \E t \in MirrorTables : ((db[t] \ r.del[t]) \ T[t]) \cap other.del[t] # {}

\* The transaction after a statement that left tables T in its view.
Wrote(r, T) ==
  [r EXCEPT !.del = [t \in MirrorTables |-> db[t] \ T[t]],
            !.ins = [t \in MirrorTables |-> T[t] \ db[t]]]

\* What a step of one of the two invocations leaves alone.
PeerFrame ==
  UNCHANGED <<remote, tx, sync, before, gens, faults, seen, live, req,
              cls, ui, tracker>>

\* An invocation starts: await pgClient.query('BEGIN') on its own connection
PeerBegin(p) ==
  /\ procs.run[p].pc \in {"idle", "done"}
  /\ runs <= MaxRuns
  /\ runs' = runs + 1
  /\ procs' = [procs EXCEPT
       !.run[p] = [idleRun EXCEPT !.pc = "q_orders", !.start = Later],
       !.overlapped = @ \/ InTx(procs.run[3 - p])]
  /\ clock' = Later
  /\ UNCHANGED <<db, seq>>
  /\ PeerFrame

\* syncOrders: const result = await sqlPool.query(SELECT ... WHERE om.Status = '0' ...)
PeerSyncOrdersQuery(p) ==
  /\ procs.run[p].pc = "q_orders"
  /\ procs' = [procs EXCEPT !.run[p] =
       [@ EXCEPT !.pc = "del_carpets", !.rs = openOrdersQuery(R)]]
  /\ UNCHANGED <<db, seq, runs, clock>>
  /\ PeerFrame

\* syncOrders: DELETE FROM ehi_carpets; DELETE FROM ehi_order_items;
\* DELETE FROM ehi_orders (three awaits, one step each)
PeerDelete(p) ==
  LET r == procs.run[p]
      T == IF r.pc = "del_carpets" THEN deleteCarpets(View(r))
           ELSE IF r.pc = "del_items" THEN deleteOrderItems(View(r))
           ELSE deleteOrders(View(r))
      to == IF r.pc = "del_carpets" THEN "del_items"
            ELSE IF r.pc = "del_items" THEN "del_orders"
            ELSE IF r.rs = <<>> THEN AfterOrders(r.orderIdMap)
            ELSE "ins_order"
  IN /\ r.pc \in {"del_carpets", "del_items", "del_orders"}
     /\ ~Waits(r, procs.run[3 - p], T)
     /\ procs' = [procs EXCEPT !.run[p] = [Wrote(r, T) EXCEPT !.pc = to]]
     /\ UNCHANGED <<db, seq, runs, clock>>
     /\ PeerFrame

\* syncOrders: for (const order of result.recordset) { INSERT ...; orderIdMap.set(...) }
PeerInsertOrder(p) ==
  LET r == procs.run[p]
      order == Head(r.rs)
      id == seq.orders + 1
      map == MapSet(r.orderIdMap, order.OrderId, id)
  IN /\ r.pc = "ins_order"
     /\ procs' = [procs EXCEPT !.run[p] =
          [Wrote(r, insertOrder(View(r), id, order, r.start)) EXCEPT
             !.rs = Tail(@), !.orderIdMap = map,
             !.pc = IF Tail(r.rs) = <<>> THEN AfterOrders(map) ELSE @]]
     /\ seq' = [seq EXCEPT !.orders = id]
     /\ UNCHANGED <<db, runs, clock>>
     /\ PeerFrame

\* syncOrderItems: the batched SELECTs of OrderDetail
PeerSyncOrderItemsQuery(p) ==
  LET r == procs.run[p]
      ehiOrderIds == MapKeys(r.orderIdMap)
      allItems == r.rs \o orderItemsQuery(R, Slice(ehiOrderIds, r.i, BATCH))
      last == r.i + BATCH >= Len(ehiOrderIds)
  IN /\ r.pc = "q_items"
     /\ procs' = [procs EXCEPT !.run[p] = [@ EXCEPT
          !.rs = allItems,
          !.i = IF last THEN 0 ELSE @ + BATCH,
          !.pc = IF ~last THEN "q_items"
                 ELSE IF allItems = <<>> THEN "q_carpets" ELSE "ins_item"]]
     /\ UNCHANGED <<db, seq, runs, clock>>
     /\ PeerFrame

\* syncOrderItems: for (const item of allItems) { if (!pgOrderId) continue;
\*   INSERT ...; itemIdMap.set(key, id) }
PeerInsertOrderItem(p) ==
  LET r == procs.run[p]
      item == Head(r.rs)
      known == MapHas(r.orderIdMap, item.OrderId)
      id == seq.items + 1
      key == <<item.OrderId, item.Item_Finished_Id>>
      T == IF known
           THEN insertOrderItem(View(r), id, MapGet(r.orderIdMap, item.OrderId), item)
           ELSE View(r)
  IN /\ r.pc = "ins_item"
     /\ procs' = [procs EXCEPT !.run[p] = [Wrote(r, T) EXCEPT
          !.rs = Tail(@),
          !.itemIdMap = IF known THEN MapSet(@, key, id) ELSE @,
          !.pc = IF Tail(r.rs) = <<>> THEN "q_carpets" ELSE @]]
     /\ seq' = IF known THEN [seq EXCEPT !.items = id] ELSE seq
     /\ UNCHANGED <<db, runs, clock>>
     /\ PeerFrame

\* syncCarpets: the batched SELECTs of CarpetNumber
PeerSyncCarpetsQuery(p) ==
  LET r == procs.run[p]
      ehiOrderIds == MapKeys(r.orderIdMap)
      result == carpetsQuery(R, Slice(ehiOrderIds, r.i, SQL_BATCH))
  IN /\ r.pc = "q_carpets"
     /\ procs' = [procs EXCEPT !.run[p] = [@ EXCEPT
          !.rs = result, !.j = 0, !.i = @ + SQL_BATCH,
          !.pc = AfterCarpets(result, 0, r.i + SQL_BATCH, Len(ehiOrderIds))]]
     /\ UNCHANGED <<db, seq, runs, clock>>
     /\ PeerFrame

\* syncCarpets: INSERT INTO ehi_carpets ... VALUES (...), (...), one batch
PeerInsertCarpets(p) ==
  LET r == procs.run[p]
      batch == Slice(r.rs, r.j, PG_BATCH)
      T == insertCarpets(View(r), seq.carpets + 1, batch, r.itemIdMap)
  IN /\ r.pc = "ins_carpets"
     /\ procs' = [procs EXCEPT !.run[p] = [Wrote(r, T) EXCEPT
          !.carpetCount = @ + Len(batch), !.j = @ + PG_BATCH,
          !.pc = AfterCarpets(r.rs, r.j + PG_BATCH, r.i, MapSize(r.orderIdMap))]]
     /\ seq' = [seq EXCEPT !.carpets = @ + Len(batch)]
     /\ UNCHANGED <<db, runs, clock>>
     /\ PeerFrame

\* await pgClient.query('COMMIT'): the transaction's deletes and inserts
\* become the committed rows
PeerCommit(p) ==
  LET r == procs.run[p] IN
  /\ r.pc = "commit"
  /\ db' = View(r)
  /\ procs' = [procs EXCEPT !.run[p] =
       [@ EXCEPT !.pc = "done", !.del = idleRun.del, !.ins = idleRun.ins]]
  /\ UNCHANGED <<seq, runs, clock>>
  /\ PeerFrame

\* ------------------------------------------------------------------------
\* The production tracker: PUT /production-tracker/:id/stage/:stage of
\* netlify/functions/api.mts, on one order's document, two requests at a time
\* ------------------------------------------------------------------------

\* Stage update requests explored on the document.
MaxRequests == 3

\* The leading TNA stages that the explored requests name.
MaxStages == 3

TNA_STAGES ==
  <<"raw_material_purchase", "dyeing", "photo_shoot_approval",
    "first_piece_approval", "weaving", "finishing", "fg_godown",
    "order_label_in_house", "inspection", "packing", "dispatch">>

\* calculateCurrentStage(stages, undefined): the first stage that is not
\* completed, 'dispatch' when there is none
calculateCurrentStage(stages) ==
  LET open == {i \in DOMAIN TNA_STAGES : stages[TNA_STAGES[i]] # "completed"}
  IN IF open = {} THEN "dispatch"
     ELSE TNA_STAGES[CHOOSE i \in open : \A k \in open : i <= k]

\* TNA_STAGES.forEach((s) => { initialStages[s] = { status: 'pending', ... } })
initialStages == [s \in {TNA_STAGES[i] : i \in DOMAIN TNA_STAGES} |-> "pending"]

\* No document yet, no request in flight.
NoTracker ==
  [doc |-> [exists |-> FALSE, stages |-> initialStages,
            currentStage |-> "raw_material_purchase"],
   reqs |-> [r \in {1, 2} |->
               [pc |-> "idle", stage |-> "", status |-> "",
                trackerDoc |-> [exists |-> FALSE, stages |-> initialStages]]],
   served |-> 0]

TrackerFrame ==
  UNCHANGED <<remote, db, tx, seq, sync, runs, clock, before, gens, faults,
              seen, live, req, cls, ui, procs>>

\* The request arrives: the stage is one of TNA_STAGES (else 400) and the
\* body is parsed; stageUpdate.status = status || 'pending'
PutStage(r, stage, status) ==
  /\ tracker.reqs[r].pc \in {"idle", "done"}
  /\ tracker.served < MaxRequests
  /\ tracker' = [tracker EXCEPT
       !.served = @ + 1,
       !.reqs[r] = [@ EXCEPT !.pc = "get", !.stage = stage,
                             !.status = IF status = "" THEN "pending" ELSE status]]
  /\ TrackerFrame

\* const trackerDoc = await trackerRef.get()
TrackerGet(r) ==
  /\ tracker.reqs[r].pc = "get"
  /\ tracker' = [tracker EXCEPT !.reqs[r] =
       [@ EXCEPT !.pc = "write",
                 !.trackerDoc = [exists |-> tracker.doc.exists,
                                 stages |-> tracker.doc.stages]]]
  /\ TrackerFrame

\* if (trackerDoc.exists) await trackerRef.update({ [`stages.${stage}`]:
\*   stageUpdate, currentStage: calculateCurrentStage({ ...trackerDoc.data()
\*   ?.stages, [stage]: stageUpdate }) }) else await trackerRef.set({ stages:
\*   initialStages, currentStage: calculateCurrentStage(initialStages) })
TrackerWrite(r) ==
  LET q == tracker.reqs[r]
      merged == [q.trackerDoc.stages EXCEPT ![q.stage] = q.status]
      created == [initialStages EXCEPT ![q.stage] = q.status]
  IN /\ q.pc = "write"
     /\ tracker' = [tracker EXCEPT
          !.reqs[r].pc = "done",
          !.doc = IF q.trackerDoc.exists
                  THEN [exists |-> TRUE,
                        stages |-> [tracker.doc.stages EXCEPT ![q.stage] = q.status],
                        currentStage |-> calculateCurrentStage(merged)]
                  ELSE [exists |-> TRUE, stages |-> created,
                        currentStage |-> calculateCurrentStage(created)]]
     /\ TrackerFrame

vars ==
  <<remote, db, tx, seq, sync, runs, clock, before, gens, faults, seen, live,
    req, cls, ui, procs, tracker>>

Init ==
  /\ remote \in DOMAIN RemoteData
  /\ db = CREATE_TABLES_SQL
  /\ tx = NoTx
  /\ seq = [orders |-> 0, items |-> 0, carpets |-> 0, log |-> 0]
  /\ sync = mainLocals
  /\ runs = 0
  /\ clock = 0
  /\ before = Mirror(db)
  /\ gens = {NoCommit}
  /\ faults = 0
  /\ seen = Snapshot(db, tx)
  /\ live = 1
  /\ req = NoRequest
  /\ cls = NotClassified
  /\ ui = NoView
  /\ procs = NoProcs
  /\ tracker = NoTracker

SyncStep ==
  \/ Start \/ ConnectSql \/ ConnectPg \/ LogSyncStart \/ RefreshProcessNames
  \/ Begin \/ SyncOrdersQuery \/ DeleteCarpets \/ DeleteOrderItems
  \/ DeleteOrders \/ InsertOrder \/ SyncOrderItemsQuery \/ InsertOrderItem
  \/ SyncCarpetsQuery \/ InsertCarpets \/ Commit \/ LogSuccess \/ Rollback
  \/ LogError \/ Throw \/ Kill

Next == SyncStep \/ RemoteChange \/ ConcurrentQuery

Spec == Init /\ [][Next]_vars

\* The query engine on a mirror left by a successful run (or never synced),
\* a live database, and a clock around the staleness threshold.
ClockOffsets ==
  {d : d \in -Fuzz..Fuzz} \cup {2 * HourMs + d : d \in -Fuzz..Fuzz}

InitQuery ==
  /\ remote \in DOMAIN RemoteData
  /\ db \in {CREATE_TABLES_SQL, fullSync(RemoteData[remote], 0)}
  /\ tx = NoTx
  /\ seq = [orders |-> Cardinality(db.ehi_orders),
            items |-> Cardinality(db.ehi_order_items),
            carpets |-> Cardinality(db.ehi_carpets),
            log |-> Cardinality(db.ehi_sync_log)]
  /\ sync = IF db = CREATE_TABLES_SQL THEN mainLocals ELSE [mainLocals EXCEPT !.pc = "done"]
  /\ runs = Cardinality(db.ehi_sync_log)
  /\ clock \in {1 + d : d \in ClockOffsets}
  /\ before = Mirror(CREATE_TABLES_SQL)
  /\ gens = {NoCommit}
  /\ faults = 0
  /\ seen = Snapshot(db, tx)
  /\ live \in DOMAIN LiveData
  /\ req = NoRequest
  /\ cls = NotClassified
  /\ ui = NoView
  /\ procs = NoProcs
  /\ tracker = NoTracker

NextQuery ==
  \/ MethodNotAllowed \/ Request \/ EmplQuery \/ EhiQuery \/ StatusQuery
  \/ Respond \/ RenderStageBars

SpecQuery == InitQuery /\ [][NextQuery]_vars

\* The query engine with sources that may never answer.  Every query that
\* can settle does, and a response whose three promises are settled is sent.
InitHang ==
  InitQuery /\ clock = 1 /\ remote = 1 /\ live = 1 /\ db # CREATE_TABLES_SQL

NextHang == NextQuery \/ EmplHang \/ EhiHang

SpecHang ==
  /\ InitHang /\ [][NextHang]_vars
  /\ WF_vars(EmplQuery) /\ WF_vars(EhiQuery) /\ WF_vars(StatusQuery)
  /\ WF_vars(Respond)

InitClassifier ==
  /\ remote = 1
  /\ db = CREATE_TABLES_SQL
  /\ tx = NoTx
  /\ seq = [orders |-> 0, items |-> 0, carpets |-> 0, log |-> 0]
  /\ sync = mainLocals
  /\ runs = 0
  /\ clock = 0
  /\ before = Mirror(db)
  /\ gens = {NoCommit}
  /\ faults = 0
  /\ seen = Snapshot(db, tx)
  /\ live = 1
  /\ req = NoRequest
  /\ cls \in {[input |-> c, output |-> "none"] : c \in ProcessCodes}
  /\ ui = NoView
  /\ procs = NoProcs
  /\ tracker = NoTracker

NextClassifier == Classify

SpecClassifier == InitClassifier /\ [][NextClassifier]_vars

\* A WIP request served while the sync engine replaces a mirror that an
\* earlier run filled: the handler's queries and the run's statements in any
\* order, each query a statement of its own (neon(dbUrl) over HTTP).
InitLag ==
  /\ remote = 1
  /\ db = fullSync(RemoteData[remote], 0)
  /\ tx = NoTx
  /\ seq = [orders |-> Cardinality(db.ehi_orders),
            items |-> Cardinality(db.ehi_order_items),
            carpets |-> Cardinality(db.ehi_carpets),
            log |-> Cardinality(db.ehi_sync_log)]
  /\ sync = [mainLocals EXCEPT !.pc = "done"]
  /\ runs = 1
  /\ clock = 1
  /\ before = Mirror(CREATE_TABLES_SQL)
  /\ gens = {NoCommit, [NoCommit EXCEPT !.m = Mirror(db), !.remote = remote]}
  /\ faults = 0
  /\ seen = Snapshot(db, tx)
  /\ live = 1
  /\ req = NoRequest
  /\ cls = NotClassified
  /\ ui = NoView
  /\ procs = NoProcs
  /\ tracker = NoTracker

NextLag ==
  \/ Start \/ ConnectSql \/ ConnectPg \/ LogSyncStart \/ RefreshProcessNames
  \/ Begin \/ SyncOrdersQuery \/ DeleteCarpets \/ DeleteOrderItems
  \/ DeleteOrders \/ InsertOrder \/ SyncOrderItemsQuery \/ InsertOrderItem
  \/ SyncCarpetsQuery \/ InsertCarpets \/ Commit \/ LogSuccess
  \/ Request \/ EmplQuery \/ EhiQuery \/ StatusQuery \/ Respond

SpecLag == InitLag /\ [][NextLag]_vars

InitTracker ==
  /\ remote = 1
  /\ db = CREATE_TABLES_SQL
  /\ tx = NoTx
  /\ seq = [orders |-> 0, items |-> 0, carpets |-> 0, log |-> 0]
  /\ sync = mainLocals
  /\ runs = 0
  /\ clock = 0
  /\ before = Mirror(db)
  /\ gens = {NoCommit}
  /\ faults = 0
  /\ seen = Snapshot(db, tx)
  /\ live = 1
  /\ req = NoRequest
  /\ cls = NotClassified
  /\ ui = NoView
  /\ procs = NoProcs
  /\ tracker = NoTracker

NextTracker ==
  \E r \in {1, 2} :
    \/ \E i \in 1..MaxStages, status \in {"", "pending", "in_progress", "completed"} :
         PutStage(r, TNA_STAGES[i], status)
    \/ TrackerGet(r)
    \/ TrackerWrite(r)

SpecTracker == InitTracker /\ [][NextTracker]_vars

InitOverlap ==
  /\ remote \in DOMAIN RemoteData
  /\ db = CREATE_TABLES_SQL
  /\ tx = NoTx
  /\ seq = [orders |-> 0, items |-> 0, carpets |-> 0, log |-> 0]
  /\ sync = mainLocals
  /\ runs = 0
  /\ clock = 0
  /\ before = Mirror(db)
  /\ gens = {NoCommit}
  /\ faults = 0
  /\ seen = Snapshot(db, tx)
  /\ live = 1
  /\ req = NoRequest
  /\ cls = NotClassified
  /\ ui = NoView
  /\ procs = NoProcs
  /\ tracker = NoTracker

NextOverlap ==
  \E p \in {1, 2} :
    \/ PeerBegin(p) \/ PeerSyncOrdersQuery(p) \/ PeerDelete(p)
    \/ PeerInsertOrder(p) \/ PeerSyncOrderItemsQuery(p)
    \/ PeerInsertOrderItem(p) \/ PeerSyncCarpetsQuery(p)
    \/ PeerInsertCarpets(p) \/ PeerCommit(p)

SpecOverlap == InitOverlap /\ [][NextOverlap]_vars

\* Order identifiers of the rows and of the open list the reconciler is
\* explored on.
GroupOps ==
  {Ids.EM_25_150, Ids.EM_25_050, Ids.EM_25_100, Ids.EM_24_100, Ids.em_25_150, Ids.EM_25_139_B,
   Ids.EM_25_770_B, Ids.X_25_150, Ids.X_25_050, Ids.X_25_010}

FileOps == {Ids.EM_25_100, Ids.em_25_050_, Ids.EM_25_139_B, Ids.X_25_010, Ids.IK_900}

\* A WIPRow of the response with the given company and order identifier.
sampleRow(company, opsNo) ==
  [company |-> company, opsNo |-> opsNo, buyerCode |-> Ids.J_01,
   buyerName |-> <<>>, folioNo |-> <<>>, contractor |-> <<>>,
   design |-> Ids.KILIM, totalPcs |-> 2, onLoom |-> 1, bazarPcs |-> 0,
   finishingPcs |-> 0, fgGodownPcs |-> 0, packedPcs |-> 1,
   dispatchedPcs |-> 0, orderId |-> 1, orderItemId |-> 1]

SampleRows ==
  {sampleRow("EHI", o) : o \in GroupOps} \cup {sampleRow("EMPL", Ids.EM_25_150)}

SeqsUpTo(S, n) == UNION {[1..k -> S] : k \in 0..n}

\* The WIP page over fetched rows: the open list arrives, the view is toggled.
InitReconcile ==
  /\ remote = 1
  /\ db = CREATE_TABLES_SQL
  /\ tx = NoTx
  /\ seq = [orders |-> 0, items |-> 0, carpets |-> 0, log |-> 0]
  /\ sync = mainLocals
  /\ runs = 0
  /\ clock = 0
  /\ before = Mirror(db)
  /\ gens = {NoCommit}
  /\ faults = 0
  /\ seen = Snapshot(db, tx)
  /\ live = 1
  /\ req = NoRequest
  /\ cls = NotClassified
  /\ \E rows \in SeqsUpTo(SampleRows, MaxRows) : ui = Page(rows, "open", NoOpenOps)
  /\ procs = NoProcs
  /\ tracker = NoTracker

NextReconcile ==
  \/ \E res \in Responses, opsNumbers \in SeqsUpTo(FileOps, MaxOpenOps) :
       FetchOpenOps(res, opsNumbers)
  \/ \E mode \in {"open", "all"} : SetViewMode(mode)

SpecReconcile == InitReconcile /\ [][NextReconcile]_vars

\* ------------------------------------------------------------------------
\* Properties
\* ------------------------------------------------------------------------

\* The sync log row of the present run.
LogRow == CHOOSE r \in db.ehi_sync_log : r.id = sync.syncLogId

HasLogRow == \E r \in db.ehi_sync_log : r.id = sync.syncLogId

\* A committed generation holds every order, item and unit its run extracted.
Complete(g) ==
  /\ {o.order_id_src : o \in g.m.ehi_orders} = g.found.orders
  /\ {oi.order_detail_id_src : oi \in g.m.ehi_order_items} = g.found.details
  /\ {c.stock_no : c \in g.m.ehi_carpets} = g.found.stocks

\* C1: a run that has not committed (it is still working, it failed with an
\* exception, or it was killed) leaves the mirror tables exactly as a previous
\* commit left them and as they were when the run started.
C1_UncommittedRunKeepsMirror ==
  (sync.pc # "idle" /\ ~sync.committed) =>
    /\ Mirror(db) = before
    /\ \E g \in gens : g.m = before

\* C1 witness: a run failed inside its transaction, after rows were deleted
\* and inserted, over a mirror that an earlier run had filled.
C1_Witness ==
  /\ sync.pc = "done" /\ sync.exit # 0 /\ ~sync.committed
  /\ sync.err \in {"ins_carpets", "commit"}
  /\ before.ehi_carpets # {}
  /\ Mirror(db) = before

\* C2: whatever a concurrent read of the mirror reads, at any step of a sync
\* run, is the whole mirror of some commit (or the tables as created): never
\* an emptied or half-loaded one.
C2_ReadsSeeWholeGenerations ==
  \E g \in gens : seen.tables = g.m /\ Complete(g)

\* C2 witness: a read made while the sync transaction held uncommitted
\* changes returned the filled mirror of an earlier commit.
C2_Witness == seen.dirty /\ seen.tables.ehi_carpets # {}

\* C3: for a numeric process code the classifier gives the documented bucket:
\* 1 on_loom; 7, 25, 27 packed; 21, 22 fg_godown; the rest of 2..37
\* finishing; anything outside 1..37 on_loom.
DocumentedStage(n) ==
  IF n = 1 THEN "on_loom"
  ELSE IF n \in {7, 25, 27} THEN "packed"
  ELSE IF n \in {21, 22} THEN "fg_godown"
  ELSE IF n \in 2..37 THEN "finishing"
  ELSE "on_loom"

C3_ClassifierTable ==
  (cls.output # "none" /\ cls.input.t = "number") =>
    cls.output = DocumentedStage(cls.input.v)

\* C3 witness: a code above the valid range was classified by the default.
C3_Witness == cls.input = Num(ValidMax + 1) /\ cls.output = "on_loom"

\* C4: for every input, a missing code included, the classifier returns one
\* of on_loom, finishing, fg_godown, packed (never dispatched).
C4_ClassifierTotal ==
  cls.output # "none" =>
    cls.output \in {"on_loom", "finishing", "fg_godown", "packed"}

\* C4 witness: a missing (null) code was classified.
C4_Witness == cls.input = NullV /\ cls.output = "on_loom"

C6_ErrorRunLeftMirror ==
  (sync.pc = "done" /\ HasLogRow /\ LogRow.status = "error") =>
    Mirror(db) = before

\* The records the live source contributes to the request.
ExpectedLive ==
  IF req.company = "EHI" \/ ~req.env.EMPL_DATABASE_URL \/ req.empl.threw
  THEN <<>>
  ELSE emplSelect(LiveData[live], req.filters)

\* The records the mirrored source contributes to the request.
ExpectedMirror ==
  IF req.company = "EMPL" \/ ~req.env.EHI_DATABASE_URL \/ req.ehi.threw
  THEN <<>>
  ELSE ehiSelect(db, req.filters)

\* C7: without EHI_DATABASE_URL a WIP request answers success, its records
\* are exactly the live source's, and the mirrored source's status is error
\* with lastSyncedAt null.
C7_NoMirrorConfig ==
  (req.pc = "responded" /\ ~req.env.EHI_DATABASE_URL) =>
    /\ req.response.code = 200 /\ req.response.success
    /\ req.response.data = ExpectedLive
    /\ req.response.syncStatus.ehi = [status |-> "error", lastSyncedAt |-> NullV]

\* C7 witness: such a request returned live records although the mirror held
\* rows matching its filters.
C7_Witness ==
  /\ req.pc = "responded" /\ ~req.env.EHI_DATABASE_URL
  /\ req.company = "all"
  /\ req.response.data # <<>>
  /\ ehiSelect(db, req.filters) # <<>>

C9_StaleAfterTwoHours ==
  (req.status.done /\ req.env.EHI_DATABASE_URL /\ ~req.status.threw
     /\ db.ehi_orders # {}) =>
    LET T == lastSyncQuery(db).v IN
    /\ req.status.value.lastSyncedAt = Num(T)
    /\ req.status.value.status = IF clock - T > 7200000 THEN "stale" ELSE "synced"

\* C9 witness: exactly two hours after the sync the status was synced.
C9_Witness ==
  /\ req.status.done /\ db.ehi_orders # {}
  /\ clock - lastSyncQuery(db).v = 7200000
  /\ req.status.value.status = "synced"

\* The successful rows of the sync log.
SuccessRuns == {r \in db.ehi_sync_log : r.status = "success"}

\* C10: between runs, the status a request gets is error iff the sync log
\* holds no successful run, and otherwise lastSyncedAt lies within the most
\* recent successful run.
C10_StatusFollowsSyncLog ==
  ~Running =>
    LET st == getEhiSyncStatus(TRUE, db, clock, FALSE) IN
    /\ st.status = "error" <=> SuccessRuns = {}
    /\ SuccessRuns # {} =>
         \E r \in SuccessRuns :
           /\ \A q \in SuccessRuns : q.finished_at <= r.finished_at
           /\ r.started_at <= st.lastSyncedAt.v
           /\ st.lastSyncedAt.v <= r.finished_at

\* C11: for every record the page shows, the six stage counts sum to no more
\* than the ordered pieces, and stage counts + untracked = total pieces with
\* untracked >= 0.
C11_StageCountsWithinTotal ==
  \A i \in DOMAIN ui.rows :
    /\ totalTracked(ui.rows[i]) <= ui.rows[i].totalPcs
    /\ ui.bars[i].untracked >= 0
    /\ totalTracked(ui.rows[i]) + ui.bars[i].untracked = ui.rows[i].totalPcs

\* The groups of the page's rows before the open filter.
AllGroups == Range(groupByOps(ui.rows))

\* The entry matches the identifier once both are lower-cased and trimmed.
ExactlyOpen(opsNo) ==
  \E o \in Range(ui.openOpsData.opsNumbers) :
    trim(toLowerCase(o)) = trim(toLowerCase(opsNo))

\* C12: in the open view with an open list, a group is shown iff (a) its
\* identifier, lower-cased and trimmed, equals such an entry of the list, or
\* (b) its extracted sequence number is strictly greater than maxSequence;
\* a group whose sequence equals maxSequence is shown only by (a).
C12_OpenIffListedOrNewer ==
  (ui.viewMode = "open" /\ ui.openOpsData.ok) =>
    \A g \in AllGroups :
      g \in Range(ui.groupedRows) <=>
        \/ ExactlyOpen(g.opsNo)
        \/ /\ extractOpsSequence(g.opsNo) # NullV
           /\ extractOpsSequence(g.opsNo).v > ui.openOpsData.maxSequence

\* C12 witness: with maxSequence 100, an unlisted group of sequence 100 is
\* hidden, an unlisted group of sequence 150 is shown.
C12_Witness ==
  /\ ui.viewMode = "open" /\ ui.openOpsData.ok
  /\ ui.openOpsData.maxSequence = 100
  /\ \E g \in AllGroups :
       g.opsNo = Ids.EM_24_100 /\ ~ExactlyOpen(g.opsNo) /\ g \notin Range(ui.groupedRows)
  /\ \E g \in AllGroups :
       g.opsNo = Ids.EM_25_150 /\ ~ExactlyOpen(g.opsNo) /\ g \in Range(ui.groupedRows)

\* C13: with maxSequence = 100, an unlisted group "X-25-150" is open and an
\* unlisted "X-25-050" is closed, while "X-25-010" listed verbatim is open.
C13_TrailingNumberDecides ==
  (ui.viewMode = "open" /\ ui.openOpsData.ok /\ ui.openOpsData.maxSequence = 100) =>
    \A g \in AllGroups :
      /\ (g.opsNo = Ids.X_25_150 /\ ~ExactlyOpen(g.opsNo)) => g \in Range(ui.groupedRows)
      /\ (g.opsNo = Ids.X_25_050 /\ ~ExactlyOpen(g.opsNo)) => g \notin Range(ui.groupedRows)
      /\ (g.opsNo = Ids.X_25_010 /\ Ids.X_25_010 \in Range(ui.openOpsData.opsNumbers))
           => g \in Range(ui.groupedRows)

\* The latest commit of the mirror.
LastCommit == CHOOSE g \in gens : \A h \in gens : h.at <= g.at

\* The remote orders that matched the open predicate when the latest commit's
\* run read them.
OpenThen == {om \in RemoteData[LastCommit.remote].OrderMaster : om.Status = "0"}

\* C14: once a run has committed, the mirror is what the latest committed
\* run inserted: exactly one order per remote order open in that run, every
\* order stamped by that run, every item under one of these orders, and no
\* item or unit twice.
C14_MirrorIsLatestRun ==
  LastCommit.at > 0 =>
    /\ Mirror(db) = LastCommit.m
    /\ \A om \in OpenThen :
         Cardinality({o \in db.ehi_orders : o.order_id_src = om.OrderId}) = 1
    /\ \A o \in db.ehi_orders :
         /\ o.synced_at = LastCommit.at
         /\ \E om \in OpenThen : om.OrderId = o.order_id_src
    /\ \A oi \in db.ehi_order_items :
         /\ \E o \in db.ehi_orders : o.id = oi.order_id
         /\ \A oj \in db.ehi_order_items :
              oj.order_detail_id_src = oi.order_detail_id_src => oj = oi
    /\ \A c \in db.ehi_carpets :
         /\ \E cn \in RemoteData[LastCommit.remote].CarpetNumber :
              /\ cn.StockNo = c.stock_no
              /\ \E om \in OpenThen : om.OrderId = cn.OrderId
         /\ \A d \in db.ehi_carpets : d.stock_no = c.stock_no => d = c

\* C14 witness: two runs committed, and an order the first one mirrored,
\* closed remotely since, is gone from the filled mirror.
C14_Witness ==
  /\ db.ehi_orders # {}
  /\ \E g \in gens : \E o \in g.m.ehi_orders :
       /\ g.at < LastCommit.at
       /\ \A p \in db.ehi_orders : p.order_id_src # o.order_id_src

\* The sum of one field over the records of a company (or of both).
SumField(rows, companies, field) ==
  LET of == {i \in DOMAIN rows : rows[i].company \in companies}
  IN SumOver(of, [i \in of |-> rows[i][field]])

\* The distinct order identifiers among the records of a company.
OrdersOf(rows, company) ==
  {rows[i].opsNo : i \in {k \in DOMAIN rows : rows[k].company = company}}

\* C15: in every WIP response, byCompany.<c>.orders is the number of distinct
\* order identifiers among the records of company c, totalOrders is the sum
\* of the two, and totalPcs and each stage total is the sum of its field
\* over all records.
C15_SummaryMatchesRecords ==
  (req.pc = "responded" /\ req.response.code = 200) =>
    LET d == req.response.data
        sm == req.response.summary
        both == {"EMPL", "EHI"}
    IN /\ sm.byCompany.EMPL.orders = Cardinality(OrdersOf(d, "EMPL"))
       /\ sm.byCompany.EHI.orders = Cardinality(OrdersOf(d, "EHI"))
       /\ sm.totalOrders = sm.byCompany.EMPL.orders + sm.byCompany.EHI.orders
       /\ sm.totalPcs = SumField(d, both, "totalPcs")
       /\ sm.byCompany.EMPL.pcs = SumField(d, {"EMPL"}, "totalPcs")
       /\ sm.byCompany.EHI.pcs = SumField(d, {"EHI"}, "totalPcs")
       /\ sm.onLoom = SumField(d, both, "onLoom")
       /\ sm.inBazar = SumField(d, both, "bazarPcs")
       /\ sm.inFinishing = SumField(d, both, "finishingPcs")
       /\ sm.packed = SumField(d, both, "packedPcs")
       /\ sm.dispatched = SumField(d, both, "dispatchedPcs")

\* C15 witness: a response with records of both companies in which an order
\* of the mirrored source has more than one record.
C15_Witness ==
  /\ req.pc = "responded" /\ req.response.code = 200
  /\ req.response.summary.byCompany.EMPL.orders > 0
  /\ req.response.summary.byCompany.EHI.orders > 0
  /\ req.response.summary.byCompany.EHI.orders
       < Len(OfCompany(req.response.data, "EHI"))
  /\ req.response.summary.dispatched > 0

\* C16: every WIP request eventually completes with a response, also when one
\* source never answers.
C16_RequestCompletes == (req.pc = "pending") ~> (req.pc = "responded")

\* The remote unit a mirrored unit was copied from by the latest commit.
UnitThen(c) ==
  CHOOSE cn \in RemoteData[LastCommit.remote].CarpetNumber : cn.StockNo = c.stock_no

\* The mirrored items whose (source order id, source finished-item id) is
\* the unit's.
OwnersOf(cn) ==
  {oi \in db.ehi_order_items :
     /\ oi.item_finished_id = cn.Item_Finished_Id
     /\ \E o \in db.ehi_orders : o.id = oi.order_id /\ o.order_id_src = cn.OrderId}

\* C17: in every committed mirror each unit has an owning item, that item
\* has the unit's natural key, and it is the only item with that key (the
\* unit is not attached to one of several at will).
C17_UnitsOwnedByNaturalKey ==
  LastCommit.at > 0 =>
    \A c \in db.ehi_carpets :
      /\ c.order_item_id # NullV
      /\ \E oi \in OwnersOf(UnitThen(c)) : oi.id = c.order_item_id.v
      /\ Cardinality(OwnersOf(UnitThen(c))) = 1

\* The stage of the mirrored unit with the given stock number in a commit.
StageIn(g, stock) ==
  {c.wip_stage : c \in {d \in g.m.ehi_carpets : d.stock_no = stock}}

\* C18: every unit of a committed mirror carries the stage the classifier
\* gives its remote process code; a remote code of 0 or null gives on_loom.
C18_UnitsCarryClassifiedStage ==
  LastCommit.at > 0 =>
    \A c \in db.ehi_carpets :
      LET code == UnitThen(c).CurrentProStatus IN
      /\ c.wip_stage = getWipStage(code)
      /\ code.t = "number" => c.wip_stage = DocumentedStage(code.v)
      /\ (code = NullV \/ code = Num(0)) => c.wip_stage = "on_loom"

\* C18 witness: one commit mirrored units of codes 7, 25, 1 and 999 as
\* packed, packed, on_loom, on_loom, and one mirrored units of codes null
\* and 0 as on_loom.
C18_Witness ==
  /\ \E g \in gens :
       /\ StageIn(g, 2) = {"packed"} /\ StageIn(g, 8) = {"packed"}
       /\ StageIn(g, 1) = {"on_loom"} /\ StageIn(g, 3) = {"on_loom"}
  /\ \E g \in gens :
       StageIn(g, 5) = {"on_loom"} /\ StageIn(g, 7) = {"on_loom"}

\* C19: when a run is recorded with status success, its orders_synced,
\* items_synced and carpets_synced are the numbers of rows it committed into
\* the orders, the order items and the units.
C19_CountsMatchCommittedRows ==
  (sync.pc = "done" /\ HasLogRow /\ LogRow.status = "success") =>
    /\ LogRow.orders_synced = Cardinality(db.ehi_orders)
    /\ LogRow.items_synced = Cardinality(db.ehi_order_items)
    /\ LogRow.carpets_synced = Cardinality(db.ehi_carpets)

\* C20: a sync log row becomes success only in a step taken after its own
\* run's transaction has committed: the run has committed in an earlier step,
\* no transaction is open, and the committed mirror is that run's.
C20_SuccessOnlyAfterCommit ==
  [][\A r \in db'.ehi_sync_log :
       (r.status = "success" /\ r \notin db.ehi_sync_log) =>
         /\ r.id = sync.syncLogId
         /\ sync.committed /\ ~tx.open
         /\ Mirror(db) = LastCommit.m
         /\ r.started_at < LastCommit.at /\ LastCommit.at < r.finished_at]_vars

\* C20 witness: a run ended recorded as success over the mirror it
\* committed, after an earlier run was recorded as error.
C20_Witness ==
  /\ sync.pc = "done" /\ sync.committed
  /\ HasLogRow /\ LogRow.status = "success"
  /\ db.ehi_orders # {}
  /\ \E r \in db.ehi_sync_log : r.status = "error" /\ r.id < sync.syncLogId

\* C21: a run that ended with an exception without having committed, a
\* rejected connection to the remote source or to the mirror included, has
\* its own sync log row, in status error with the failing step's message.
C21_FailedRunHasErrorRow ==
  (sync.pc = "done" /\ sync.exit = 1 /\ ~sync.committed) =>
    \E r \in db.ehi_sync_log :
      r.id = sync.syncLogId /\ r.status = "error" /\ r.errors = sync.err

\* C22: a run in which any awaited step was rejected, or that was killed,
\* ends with a non-zero exit status; a run ends with status 0 only when its
\* transaction committed and its sync log row was set to success.
C22_ExitStatusTellsOutcome ==
  sync.pc = "done" =>
    /\ (sync.err # "" => sync.exit # 0)
    /\ (sync.exit = 0 =>
          /\ sync.committed /\ sync.err = ""
          /\ HasLogRow /\ LogRow.status = "success")

\* C22 witness: after a run that ended with status 0, a run failed in its
\* error UPDATE of the sync log and ended with status 1.
C22_Witness ==
  /\ sync.pc = "done" /\ sync.exit = 1 /\ sync.err = "log_error"
  /\ \E r \in db.ehi_sync_log : r.status = "success" /\ r.id < sync.syncLogId

\* A remote order is mirrored by more than one committed ehi_orders row.
DuplicateOrders(d) ==
  \E a, b \in d.ehi_orders : a # b /\ a.order_id_src = b.order_id_src

\* C23: the committed mirror holds a remote order more than once only when
\* two invocations were between BEGIN and COMMIT at the same time; with the
\* runs one after the other every remote order id occurs at most once.
C23_DuplicatesOnlyAfterOverlap ==
  DuplicateOrders(db) => procs.overlapped

\* C23 witness: both invocations were in their transactions together, both
\* committed, and the mirror they leave holds the rows of both: the same
\* remote order twice, with synced_at of two different transactions.
C23_Witness ==
  /\ \A p \in {1, 2} : procs.run[p].pc = "done"
  /\ procs.overlapped
  /\ \E a, b \in db.ehi_orders :
       a.order_id_src = b.order_id_src /\ a.synced_at # b.synced_at

\* a is b with some elements left out, the others in b's order.
RECURSIVE IsSubSeq(_, _)
IsSubSeq(a, b) ==
  IF a = <<>> THEN TRUE
  ELSE IF b = <<>> THEN FALSE
  ELSE IF Head(a) = Head(b) THEN IsSubSeq(Tail(a), Tail(b))
  ELSE IsSubSeq(a, Tail(b))

\* What the page lists in each of the two view modes.
OpenView == groupedRowsOf(ui.rows, "open", ui.openOpsData)

AllView == groupedRowsOf(ui.rows, "all", ui.openOpsData)

\* C24: with an open list loaded, the open view lists exactly the groups
\* filterOpenOps keeps and the all view lists every group; the open view is
\* the all view with groups left out, in the same order; the count on the
\* toggle is the number of groups left out and is not negative.
C24_OpenViewWithinAllView ==
  ui.openOpsData.ok =>
    /\ ui.groupedRows = (IF ui.viewMode = "open" THEN OpenView ELSE AllView)
    /\ AllView = groupByOps(ui.rows)
    /\ OpenView = filterOpenOps(groupByOps(ui.rows), ui.openOpsData)
    /\ IsSubSeq(OpenView, AllView)
    /\ ui.dispatchedCount = Len(AllView) - Len(OpenView)
    /\ ui.dispatchedCount >= 0
    /\ ui.dispatchedCount =
         Cardinality({i \in DOMAIN AllView : AllView[i] \notin Range(OpenView)})

\* C24 witness: the all view lists two groups of which the open view lists
\* the second only, and the toggle counts one hidden group.
C24_Witness ==
  /\ ui.openOpsData.ok /\ ui.viewMode = "all"
  /\ Len(ui.groupedRows) = 2 /\ ui.dispatchedCount = 1
  /\ OpenView = <<ui.groupedRows[2]>>

\* C25: when the open list could not be loaded (the request failed, the body
\* said no success, or the list was empty) the default view hides no group.
C25_MissingListHidesNothing ==
  ~ui.openOpsData.ok =>
    /\ OpenView = groupByOps(ui.rows)
    /\ ui.groupedRows = groupByOps(ui.rows)
    /\ \A i \in DOMAIN ui.rows :
         \E g \in Range(ui.groupedRows) : ui.rows[i] \in Range(g.items)

\* C25 witness: the fetch of the open list has failed and the default view
\* lists both groups, one of them a group no sequence rule would keep.
C25_Witness ==
  /\ ui.openOpsData.fetched /\ ~ui.openOpsData.ok /\ ui.viewMode = "open"
  /\ Len(ui.groupedRows) = 2
  /\ \E g \in Range(ui.groupedRows) : extractOpsSequence(g.opsNo) = NullV

\* The units of the live source behind a record that the live source marks
\* dispatched or invoiced.
LiveDispatched(row) ==
  {c \in LiveData[live].carpets :
     /\ c.order_item_id = row.orderItemId
     /\ c.folio_number = row.folioNo /\ c.contractor = row.contractor
     /\ c.current_stage \in {"dispatched", "invoiced"}}

\* C26: in every WIP response a record of the mirrored source has dispatched
\* count 0; a record with a dispatched count above 0 is a record of the live
\* source, and the count is the number of its units that the live source
\* marks dispatched or invoiced.
C26_DispatchedOnlyFromLive ==
  (req.pc = "responded" /\ req.response.code = 200) =>
    \A i \in DOMAIN req.response.data :
      LET row == req.response.data[i] IN
      /\ row.company = "EHI" => row.dispatchedPcs = 0
      /\ row.dispatchedPcs # 0 =>
           /\ row.company = "EMPL"
           /\ row.dispatchedPcs = Cardinality(LiveDispatched(row))

\* C26 witness: a response with a record of the mirrored source that has
\* packed units and a record of the live source with a dispatched unit.
C26_Witness ==
  /\ req.pc = "responded" /\ req.response.code = 200
  /\ \E i \in DOMAIN req.response.data :
       /\ req.response.data[i].company = "EHI"
       /\ req.response.data[i].packedPcs > 0
  /\ \E i \in DOMAIN req.response.data :
       /\ req.response.data[i].company = "EMPL"
       /\ req.response.data[i].dispatchedPcs > 0

\* C27: a WIP response that carries records of the mirrored source and a
\* sync timestamp carries those of one committed mirror: some commit left
\* the tables from which both the records and lastSyncedAt are read.
C27_RecordsAndTimestampOfOneCommit ==
  (/\ req.pc = "responded" /\ req.response.code = 200
   /\ OfCompany(req.response.data, "EHI") # <<>>
   /\ req.response.syncStatus.ehi.lastSyncedAt # NullV) =>
    \E g \in gens :
      /\ OfCompany(req.response.data, "EHI") = ehiSelect(g.m, req.filters)
      /\ req.response.syncStatus.ehi.lastSyncedAt = lastSyncQuery(g.m)

\* C28: in every step each sync log row stays, and a row that changes is the
\* present run's own row, was running, and becomes success or error; a row
\* that is success or error never changes again.
C28_LogRowsFinalOnce ==
  [][\A r \in db.ehi_sync_log :
       \E n \in db'.ehi_sync_log :
         /\ n.id = r.id
         /\ n # r =>
              /\ r.id = sync.syncLogId
              /\ r.status = "running"
              /\ n.status \in {"success", "error"}
              /\ n.started_at = r.started_at]_vars

\* C28 witness: a run ended with its own row turned to error while the row
\* of the earlier run is still the success that run recorded.
C28_Witness ==
  /\ sync.pc = "done" /\ HasLogRow /\ LogRow.status = "error"
  /\ \E r \in db.ehi_sync_log :
       r.id < sync.syncLogId /\ r.status = "success"
       /\ r.finished_at < LogRow.started_at

\* The positions in a record list of the records of one company and order.
RowsOf(rows, company, opsNo) ==
  {i \in DOMAIN rows : rows[i].company = company /\ rows[i].opsNo = opsNo}

\* The sum of a field over the records at the given positions.
SumAt(rows, at, field) == SumOver(at, [i \in at |-> rows[i][field]])

\* C29: for the records of a WIP response shown on the page, groupByOps
\* yields one group per distinct (company, order identifier), in the order
\* of first occurrence; a group's itemCount, totalPcs and six stage counts
\* are the count and the sums over its records, its items are its records in
\* their order, so that every record is in exactly one group; and the number
\* of groups is the response's summary.totalOrders.
C29_GroupsPartitionRecords ==
  (req.pc = "responded" /\ req.response.code = 200
     /\ ui.rows = req.response.data) =>
    LET rows == ui.rows
        groups == groupByOps(rows)
        at(g) == RowsOf(rows, g.company, g.opsNo)
        first(g) == CHOOSE i \in at(g) : \A k \in at(g) : i <= k
    IN /\ \A i \in DOMAIN rows :
            Cardinality({k \in DOMAIN groups :
               groups[k].company = rows[i].company
               /\ groups[k].opsNo = rows[i].opsNo}) = 1
       /\ \A k \in DOMAIN groups :
            LET g == groups[k] IN
            /\ at(g) # {}
            /\ g.itemCount = Cardinality(at(g))
            /\ g.totalPcs = SumAt(rows, at(g), "totalPcs")
            /\ g.onLoom = SumAt(rows, at(g), "onLoom")
            /\ g.bazarPcs = SumAt(rows, at(g), "bazarPcs")
            /\ g.finishingPcs = SumAt(rows, at(g), "finishingPcs")
            /\ g.fgGodownPcs = SumAt(rows, at(g), "fgGodownPcs")
            /\ g.packedPcs = SumAt(rows, at(g), "packedPcs")
            /\ g.dispatchedPcs = SumAt(rows, at(g), "dispatchedPcs")
            /\ g.items = SelectSeq(rows, LAMBDA r :
                           r.company = g.company /\ r.opsNo = g.opsNo)
       /\ \A k, l \in DOMAIN groups :
            k < l => first(groups[k]) < first(groups[l])
       /\ Reduce(groups, "itemCount") = Len(rows)
       /\ Len(groups) = req.response.summary.totalOrders

\* C29 witness: the page shows a response with records of both companies,
\* more records than groups, and a group of more than one record that has
\* pieces on the loom.
C29_Witness ==
  /\ req.pc = "responded" /\ req.response.code = 200
  /\ ui.rows = req.response.data
  /\ \E i, j \in DOMAIN ui.rows : ui.rows[i].company # ui.rows[j].company
  /\ \E k \in DOMAIN groupByOps(ui.rows) :
       /\ groupByOps(ui.rows)[k].itemCount > 1
       /\ groupByOps(ui.rows)[k].onLoom > 0
  /\ Len(groupByOps(ui.rows)) > 2

\* C30: whenever no stage request is between its read and its write, the
\* stored currentStage is the first stage in TNA order whose stored status
\* is not completed (dispatch when all are completed).
C30_CurrentStageIsFirstOpen ==
  (tracker.doc.exists
     /\ \A r \in {1, 2} : tracker.reqs[r].pc \in {"idle", "done"}) =>
    tracker.doc.currentStage = calculateCurrentStage(tracker.doc.stages)

=============================================================================
